---- MODULE Spec2Model ----
(***************************************************************************)
(* Model of the riff-chess board core (src/src/board): squares and masks,  *)
(* the back-rank registry, positions and castling rights, the attack/pin   *)
(* cache and move generator of MoveState, move validation, and the engine  *)
(* and player play states.                                                 *)
(*                                                                         *)
(* A Mask (u64 bitboard) is modelled as the set of square indexes whose    *)
(* bit is set; an Option<T> as the empty tuple (None) or a 1-tuple (Some). *)
(***************************************************************************)
EXTENDS Integers, Sequences, FiniteSets, TLC

None == <<>>

Some(x) == <<x>>

IsSome(o) == o # <<>>

Unwrap(o) == o[1]

Abs(n) == IF n < 0 THEN -n ELSE n

MaxOf(S) == CHOOSE x \in S : \A y \in S : y <= x

MinOf(S) == CHOOSE x \in S : \A y \in S : x <= y

(***************************************************************************)
(* square.rs: files, ranks, squares, offsets                               *)
(***************************************************************************)
FileA == 0
FileB == 1
FileC == 2
FileD == 3
FileE == 4
FileF == 5
FileG == 6
FileH == 7

Rank8 == 0
Rank7 == 1
Rank6 == 2
Rank5 == 3
Rank4 == 4
Rank3 == 5
Rank2 == 6
Rank1 == 7

Files == 0..7

Ranks == 0..7

Squares == 0..63

\* Square::new / Square::index: index = rank.index() * 8 + file.index()
SquareNew(file, rank) == rank * 8 + file

FileOf(s) == s % 8

RankOf(s) == s \div 8

\* Rank::back_rank(color)
back_rank(color) == IF color = "White" THEN Rank1 ELSE Rank8

\* Rank::is_back_rank(color)
is_back_rank(rank, color) == back_rank(color) = rank

\* !color
Opp(color) == IF color = "White" THEN "Black" ELSE "White"

\* Square + Offset: None when the file or the rank leaves the board
SquareAdd(s, x, y) ==
    LET f == FileOf(s) + x
        r == RankOf(s) + y
    IN IF f \in Files /\ r \in Ranks THEN Some(SquareNew(f, r)) ELSE None

\* the squares reached from s by the offsets of a set, dropping the ones off the board
OffsetSquares(s, offsets) ==
    {Unwrap(SquareAdd(s, o[1], o[2])) : o \in {p \in offsets : IsSome(SquareAdd(s, p[1], p[2]))}}

\* Offset::to_unit of (end - start): the unit step when the two squares share a line
UnitStep(start, end) ==
    LET dx == FileOf(end) - FileOf(start)
        dy == RankOf(end) - RankOf(start)
        sign(n) == IF n < 0 THEN -1 ELSE IF n > 0 THEN 1 ELSE 0
    IN IF (dx = 0 /\ dy = 0) \/ ~(dx = 0 \/ dy = 0 \/ Abs(dx) = Abs(dy))
       THEN None
       ELSE Some(<<sign(dx), sign(dy)>>)

(***************************************************************************)
(* position.rs: line tables                                                *)
(***************************************************************************)
SQUARES_BETWEEN ==
    [start \in Squares |-> [end \in Squares |->
        IF UnitStep(start, end) = None THEN {}
        ELSE LET u == Unwrap(UnitStep(start, end))
                 distance == MaxOf({Abs(FileOf(end) - FileOf(start)), Abs(RankOf(end) - RankOf(start))})
             IN {SquareNew(FileOf(start) + k * u[1], RankOf(start) + k * u[2]) :
                     k \in 1..(distance - 1)}]]

SQUARES_SHIELDED ==
    [start \in Squares |-> [end \in Squares |->
        IF UnitStep(start, end) = None THEN {}
        ELSE LET u == Unwrap(UnitStep(start, end))
             IN {SquareNew(FileOf(end) + k * u[1], RankOf(end) + k * u[2]) :
                     k \in {j \in 1..7 : FileOf(end) + j * u[1] \in Files
                                         /\ RankOf(end) + j * u[2] \in Ranks}}]]

between(start, end) == SQUARES_BETWEEN[start][end]

shielded(start, end) == SQUARES_SHIELDED[start][end]

blocked(start, end) == shielded(start, end) \cup {end}

HORIZONTALS ==
    [s \in Squares |-> {t \in Squares : FileOf(t) = FileOf(s) \/ RankOf(t) = RankOf(s)}]

DIAGONALS ==
    [s \in Squares |-> {t \in Squares :
        Abs(FileOf(t) - FileOf(s)) = Abs(RankOf(t) - RankOf(s))}]

ALL_LINES == [s \in Squares |-> HORIZONTALS[s] \cup DIAGONALS[s]]

(***************************************************************************)
(* moves.rs: move tables                                                   *)
(***************************************************************************)
\* one step in each of Direction::ALL (Up is (0,-1), towards rank 8)
KING_MOVES ==
    [s \in Squares |->
        OffsetSquares(s, {<<0, -1>>, <<1, -1>>, <<1, 0>>, <<1, 1>>, <<0, 1>>, <<-1, 1>>, <<-1, 0>>, <<-1, -1>>})]

QUEEN_MOVES == [s \in Squares |-> ALL_LINES[s] \ {s}]

ROOK_MOVES == [s \in Squares |-> HORIZONTALS[s] \ {s}]

BISHOP_MOVES == [s \in Squares |-> DIAGONALS[s] \ {s}]

\* KNIGHT_MOVES, from its OFFSETS
KNIGHT_MOVES ==
    [s \in Squares |->
        OffsetSquares(s, {<<1, -2>>, <<2, -1>>, <<2, 1>>, <<1, 2>>, <<-1, 2>>, <<-2, 1>>, <<-2, -1>>, <<-1, -2>>})]

WHITE_SINGLE_ADVANCES ==
    [s \in Squares |-> IF RankOf(s) \in {Rank1, Rank8} THEN {} ELSE OffsetSquares(s, {<<0, -1>>})]

WHITE_DOUBLE_ADVANCES ==
    [s \in Squares |-> IF RankOf(s) = Rank2 THEN OffsetSquares(s, {<<0, -2>>}) ELSE {}]

WHITE_PAWN_ATTACKS ==
    [s \in Squares |-> IF RankOf(s) \in {Rank1, Rank8} THEN {}
                       ELSE OffsetSquares(s, {<<-1, -1>>, <<1, -1>>})]

WHITE_PAWN_MOVES ==
    [s \in Squares |-> WHITE_SINGLE_ADVANCES[s] \cup WHITE_DOUBLE_ADVANCES[s] \cup WHITE_PAWN_ATTACKS[s]]

BLACK_SINGLE_ADVANCES ==
    [s \in Squares |-> IF RankOf(s) \in {Rank1, Rank8} THEN {} ELSE OffsetSquares(s, {<<0, 1>>})]

BLACK_DOUBLE_ADVANCES ==
    [s \in Squares |-> IF RankOf(s) = Rank7 THEN OffsetSquares(s, {<<0, 2>>}) ELSE {}]

BLACK_PAWN_ATTACKS ==
    [s \in Squares |-> IF RankOf(s) \in {Rank1, Rank8} THEN {}
                       ELSE OffsetSquares(s, {<<-1, 1>>, <<1, 1>>})]

BLACK_PAWN_MOVES ==
    [s \in Squares |-> BLACK_SINGLE_ADVANCES[s] \cup BLACK_DOUBLE_ADVANCES[s] \cup BLACK_PAWN_ATTACKS[s]]

(***************************************************************************)
(* backrank.rs: the registry of the 960 back ranks                         *)
(***************************************************************************)
\* BackRank::standard().pieces
StandardPieces == <<"Rook", "Knight", "Bishop", "Queen", "King", "Bishop", "Knight", "Rook">>

\* the five non-rook, non-king pieces in each of their 30 orders
MATRIX ==
    <<<<"Queen", "Bishop", "Bishop", "Knight", "Knight">>, <<"Queen", "Bishop", "Knight", "Bishop", "Knight">>,
      <<"Queen", "Bishop", "Knight", "Knight", "Bishop">>, <<"Queen", "Knight", "Bishop", "Knight", "Bishop">>,
      <<"Queen", "Knight", "Bishop", "Bishop", "Knight">>, <<"Queen", "Knight", "Knight", "Bishop", "Bishop">>,
      <<"Bishop", "Queen", "Bishop", "Knight", "Knight">>, <<"Bishop", "Queen", "Knight", "Bishop", "Knight">>,
      <<"Bishop", "Queen", "Knight", "Knight", "Bishop">>, <<"Knight", "Queen", "Bishop", "Knight", "Bishop">>,
      <<"Knight", "Queen", "Bishop", "Bishop", "Knight">>, <<"Knight", "Queen", "Knight", "Bishop", "Bishop">>,
      <<"Bishop", "Bishop", "Queen", "Knight", "Knight">>, <<"Bishop", "Knight", "Queen", "Bishop", "Knight">>,
      <<"Bishop", "Knight", "Queen", "Knight", "Bishop">>, <<"Knight", "Bishop", "Queen", "Knight", "Bishop">>,
      <<"Knight", "Bishop", "Queen", "Bishop", "Knight">>, <<"Knight", "Knight", "Queen", "Bishop", "Bishop">>,
      <<"Bishop", "Bishop", "Knight", "Queen", "Knight">>, <<"Bishop", "Knight", "Bishop", "Queen", "Knight">>,
      <<"Bishop", "Knight", "Knight", "Queen", "Bishop">>, <<"Knight", "Bishop", "Knight", "Queen", "Bishop">>,
      <<"Knight", "Bishop", "Bishop", "Queen", "Knight">>, <<"Knight", "Knight", "Bishop", "Queen", "Bishop">>,
      <<"Bishop", "Bishop", "Knight", "Knight", "Queen">>, <<"Bishop", "Knight", "Bishop", "Knight", "Queen">>,
      <<"Bishop", "Knight", "Knight", "Bishop", "Queen">>, <<"Knight", "Bishop", "Knight", "Bishop", "Queen">>,
      <<"Knight", "Bishop", "Bishop", "Knight", "Queen">>, <<"Knight", "Knight", "Bishop", "Bishop", "Queen">>>>

\* how many of the five go before the first rook, between rook and king,
\* between king and second rook, and after the second rook
SPLITS ==
    <<<<5, 0, 0, 0>>, <<4, 1, 0, 0>>, <<4, 0, 1, 0>>, <<4, 0, 0, 1>>, <<3, 2, 0, 0>>, <<3, 1, 1, 0>>, <<3, 1, 0, 1>>,
      <<3, 0, 2, 0>>, <<3, 0, 1, 1>>, <<3, 0, 0, 2>>, <<2, 3, 0, 0>>, <<2, 2, 1, 0>>, <<2, 2, 0, 1>>, <<2, 1, 2, 0>>,
      <<2, 1, 1, 1>>, <<2, 1, 0, 2>>, <<2, 0, 3, 0>>, <<2, 0, 2, 1>>, <<2, 0, 1, 2>>, <<2, 0, 0, 3>>, <<1, 4, 0, 0>>,
      <<1, 3, 1, 0>>, <<1, 3, 0, 1>>, <<1, 2, 2, 0>>, <<1, 2, 1, 1>>, <<1, 2, 0, 2>>, <<1, 1, 3, 0>>, <<1, 1, 2, 1>>,
      <<1, 1, 1, 2>>, <<1, 1, 0, 3>>, <<1, 0, 4, 0>>, <<1, 0, 3, 1>>, <<1, 0, 2, 2>>, <<1, 0, 1, 3>>, <<1, 0, 0, 4>>,
      <<0, 5, 0, 0>>, <<0, 4, 1, 0>>, <<0, 4, 0, 1>>, <<0, 3, 2, 0>>, <<0, 3, 1, 1>>, <<0, 3, 0, 2>>, <<0, 2, 3, 0>>,
      <<0, 2, 2, 1>>, <<0, 2, 1, 2>>, <<0, 2, 0, 3>>, <<0, 1, 4, 0>>, <<0, 1, 3, 1>>, <<0, 1, 2, 2>>, <<0, 1, 1, 3>>,
      <<0, 1, 0, 4>>, <<0, 0, 5, 0>>, <<0, 0, 4, 1>>, <<0, 0, 3, 2>>, <<0, 0, 2, 3>>, <<0, 0, 1, 4>>, <<0, 0, 0, 5>>>>

\* the files on which a back rank holds a piece, in ascending order
FilesOf(pieces, piece) ==
    LET S == {f \in Files : pieces[f + 1] = piece}
    IN IF S = {} THEN <<>>
       ELSE IF Cardinality(S) = 1 THEN <<MinOf(S)>>
       ELSE IF Cardinality(S) = 2 THEN <<MinOf(S), MaxOf(S)>>
       ELSE <<MinOf(S), MinOf(S \ {MinOf(S)}), MaxOf(S)>>

\* BackRank::inner_build: None for an Err, Some(BackRank) otherwise
inner_build(pieces) ==
    LET kings == FilesOf(pieces, "King")
        queens == FilesOf(pieces, "Queen")
        rooks == FilesOf(pieces, "Rook")
        bishops == FilesOf(pieces, "Bishop")
        knights == FilesOf(pieces, "Knight")
    IN IF Len(pieces) # 8 \/ Len(kings) # 1 \/ Len(queens) # 1 \/ Len(rooks) # 2
          \/ Len(bishops) # 2 \/ Len(knights) # 2
       THEN None
       ELSE IF bishops[1] % 2 = bishops[2] % 2 THEN None
       ELSE IF kings[1] < rooks[1] \/ kings[1] > rooks[2] THEN None
       ELSE Some([pieces |-> pieces, king |-> kings[1], queen |-> queens[1],
                  rooks |-> rooks, bishops |-> bishops, knights |-> knights])

\* the back ranks the two loops of BACKRANKS push, in generation order:
\* each MATRIX row is split by each SPLITS row around Rook, King, Rook, and
\* an assembled back rank is pushed when it is valid and not the standard one
PushedPieces ==
    LET bucket(pieces, start, count) == SubSeq(pieces, start + 1, start + count)
        assemble(pieces, split) ==
            bucket(pieces, 0, split[1]) \o <<"Rook">>
            \o bucket(pieces, split[1], split[2]) \o <<"King">>
            \o bucket(pieces, split[1] + split[2], split[3]) \o <<"Rook">>
            \o bucket(pieces, split[1] + split[2] + split[3], split[4])
        assembled ==
            [i \in 1..(Len(MATRIX) * Len(SPLITS)) |->
                assemble(MATRIX[((i - 1) \div Len(SPLITS)) + 1], SPLITS[((i - 1) % Len(SPLITS)) + 1])]
    IN SelectSeq(assembled, LAMBDA c : IsSome(inner_build(c)) /\ c # StandardPieces)

\* BACKRANKS.backranks: the standard back rank at index 0, then the pushed ones
BACKRANKS ==
    <<Unwrap(inner_build(StandardPieces))>>
    \o [i \in 1..Len(PushedPieces) |-> Unwrap(inner_build(PushedPieces[i]))]

\* a lookup that answers the last id with the standard back rank
lookup_last_is_standard(id) == BACKRANKS[IF id = Len(BACKRANKS) - 1 THEN 1 ELSE id + 1]

\* BackRank::lookup(id), ids counting from 0
lookup(id) == BACKRANKS[id + 1]

\* BACKRANKS.ids: the standard pieces are inserted with id 0, then the pieces
\* of each pushed back rank with the number of keys the map holds by then;
\* a key keeps the value of its last insertion
BACKRANK_IDS ==
    LET pushed(p) == {n \in 1..Len(PushedPieces) : PushedPieces[n] = p}
        keys(n) == {StandardPieces} \cup {PushedPieces[m] : m \in 1..(n - 1)}
    IN [p \in {StandardPieces} \cup {PushedPieces[n] : n \in 1..Len(PushedPieces)} |->
           IF pushed(p) = {} THEN 0 ELSE Cardinality(keys(MaxOf(pushed(p))))]

\* BackRank::id
id_of(backrank) == BACKRANK_IDS[backrank.pieces]

\* BackRankId::STANDARD, the id of BackRankId::default()
STANDARD == 0

\* a try_from that rejects the last index of the registry as well
ValidBackRankIdBelowLast(index) == ~(index >= 959)

\* BackRankId::try_from is Ok for an index unless index >= 960
ValidBackRankId(index) == ~(index >= 960)

(***************************************************************************)
(* material.rs, position.rs, castling.rs                                   *)
(***************************************************************************)
Colors == {"White", "Black"}

Pieces == {"Pawn", "Knight", "Bishop", "Rook", "Queen", "King"}

Promotions == {"Queen", "Rook", "Bishop", "Knight"}

Material(color, piece) == [color |-> color, piece |-> piece]

\* the masks with the bit of one square set (add = TRUE) or cleared for a material
MasksWith(masks, square, material, add) ==
    LET upd(m) == IF add THEN m \cup {square} ELSE m \ {square}
        p == material.piece
    IN [pieces |-> [masks.pieces EXCEPT ![material.color] = upd(masks.pieces[material.color])],
        kings |-> IF p = "King" THEN upd(masks.kings) ELSE masks.kings,
        queens |-> IF p = "Queen" THEN upd(masks.queens) ELSE masks.queens,
        rooks |-> IF p = "Rook" THEN upd(masks.rooks) ELSE masks.rooks,
        bishops |-> IF p = "Bishop" THEN upd(masks.bishops) ELSE masks.bishops,
        knights |-> IF p = "Knight" THEN upd(masks.knights) ELSE masks.knights,
        pawns |-> IF p = "Pawn" THEN upd(masks.pawns) ELSE masks.pawns]

\* a removal that clears the square and leaves the masks as they are
remove_keeps_masks(pos, square) ==
    IF IsSome(pos.squares[square]) THEN [pos EXCEPT !.squares[square] = None] ELSE pos

\* Position::remove: the position without the material of a square (the
\* removed material is pos.squares[square])
remove(pos, square) ==
    IF IsSome(pos.squares[square])
    THEN [pos EXCEPT !.squares[square] = None,
                     !.masks = MasksWith(pos.masks, square, Unwrap(pos.squares[square]), FALSE)]
    ELSE pos

\* Position::place: removes what the square holds, then puts the material
place(pos, square, material) ==
    LET put(p) == [p EXCEPT !.squares[square] = Some(material),
                            !.masks = MasksWith(p.masks, square, material, TRUE)]
    IN put(remove(pos, square))

\* Turn for Position: MoveId::turn of the next move id
turn(pos) == IF pos.next_move_id % 2 = 0 THEN "White" ELSE "Black"

\* the piece Position::init puts on a file
InitPiece(br, file) ==
    IF file = br.king THEN "King"
    ELSE IF file = br.queen THEN "Queen"
    ELSE IF file \in {br.rooks[1], br.rooks[2]} THEN "Rook"
    ELSE IF file \in {br.bishops[1], br.bishops[2]} THEN "Bishop"
    ELSE "Knight"

\* Position::init_file: what the placements leave on a square, a pawn on
\* ranks 2 and 7 and the piece of the file on ranks 1 and 8
init_file(br, square) ==
    CASE RankOf(square) = Rank2 -> Some(Material("White", "Pawn"))
      [] RankOf(square) = Rank1 -> Some(Material("White", InitPiece(br, FileOf(square))))
      [] RankOf(square) = Rank7 -> Some(Material("Black", "Pawn"))
      [] RankOf(square) = Rank8 -> Some(Material("Black", InitPiece(br, FileOf(square))))
      [] OTHER -> None

\* the masks that Position::place keeps for the contents of the squares
MasksOf(squares) ==
    LET of(piece) == {s \in Squares : IsSome(squares[s]) /\ Unwrap(squares[s]).piece = piece}
        side(c) == {s \in Squares : IsSome(squares[s]) /\ Unwrap(squares[s]).color = c}
    IN [pieces |-> [White |-> side("White"), Black |-> side("Black")],
        kings |-> of("King"), queens |-> of("Queen"), rooks |-> of("Rook"),
        bishops |-> of("Bishop"), knights |-> of("Knight"), pawns |-> of("Pawn")]

\* Position::new(backrank): every file initialised on empty squares and masks
\* (@@ turns the contents of the squares into an explicit table)
PositionNew(backrank) ==
    LET filled(squares) ==
            [squares |-> squares,
             masks |-> MasksOf(squares),
             backrank |-> backrank,
             castling |-> [White |-> [color |-> "White", oo |-> TRUE, ooo |-> TRUE],
                          Black |-> [color |-> "Black", oo |-> TRUE, ooo |-> TRUE]],
             en_passant |-> None,
             next_move_id |-> 0,
             moves_since_progress |-> 0]
    IN filled([s \in Squares |-> init_file(backrank, s)] @@ <<>>)

\* Pos: masks by side and by kind
occupied(pos) == pos.masks.pieces["White"] \cup pos.masks.pieces["Black"]

ours(pos) == pos.masks.pieces[turn(pos)]

theirs(pos) == pos.masks.pieces[Opp(turn(pos))]

line_pieces(pos) == pos.masks.rooks \cup pos.masks.queens \cup pos.masks.bishops

their_line_pieces(pos) == theirs(pos) \cap line_pieces(pos)

\* Pos::our_king unwraps the first square of ours & kings; HasOurKing tells
\* whether that unwrap succeeds
HasOurKing(pos) == ours(pos) \cap pos.masks.kings # {}

our_king(pos) == MinOf(ours(pos) \cap pos.masks.kings)

\* Castling: source and destination squares of a colour's rights
king_src(pos, color) == SquareNew(pos.backrank.king, back_rank(pos.castling[color].color))

oo_rook_src(pos, color) == SquareNew(pos.backrank.rooks[2], back_rank(pos.castling[color].color))

oo_king_dest(pos, color) == SquareNew(FileG, back_rank(pos.castling[color].color))

\* The rook sent to the king's destination square instead of the f-file.
oo_rook_dest_on_king(pos, color) == SquareNew(FileG, back_rank(pos.castling[color].color))

oo_rook_dest(pos, color) == SquareNew(FileF, back_rank(pos.castling[color].color))

ooo_rook_src(pos, color) == SquareNew(pos.backrank.rooks[1], back_rank(pos.castling[color].color))

ooo_king_dest(pos, color) == SquareNew(FileC, back_rank(pos.castling[color].color))

ooo_rook_dest(pos, color) == SquareNew(FileD, back_rank(pos.castling[color].color))

oo_blocking_lane(pos, color) == between(king_src(pos, color), oo_rook_src(pos, color))

oo_attacking_lane(pos, color) ==
    between(king_src(pos, color), oo_king_dest(pos, color)) \cup {oo_king_dest(pos, color)}

ooo_blocking_lane(pos, color) == between(ooo_rook_src(pos, color), king_src(pos, color))

ooo_attacking_lane(pos, color) ==
    between(ooo_king_dest(pos, color), king_src(pos, color)) \cup {ooo_king_dest(pos, color)}

\* update(square) that looks at the king's source square only
CastlingUpdateKingOnly(pos, color, square) ==
    [pos EXCEPT !.castling[color] =
        [color |-> @.color,
         oo |-> IF @.oo /\ square = king_src(pos, color) THEN FALSE ELSE @.oo,
         ooo |-> IF @.ooo /\ square = king_src(pos, color) THEN FALSE ELSE @.ooo]]

\* CastlingMut::update(square) on the rights of a colour
CastlingUpdate(pos, color, square) ==
    [pos EXCEPT !.castling[color] =
        [color |-> @.color,
         oo |-> IF @.oo /\ (square = king_src(pos, color) \/ square = oo_rook_src(pos, color))
                THEN FALSE ELSE @.oo,
         ooo |-> IF @.ooo /\ (square = king_src(pos, color) \/ square = ooo_rook_src(pos, color))
                 THEN FALSE ELSE @.ooo]]

\* CastlingMut::clear on the rights of a colour
CastlingClear(pos, color) ==
    [pos EXCEPT !.castling[color] = [color |-> pos.castling[color].color, oo |-> FALSE, ooo |-> FALSE]]

(***************************************************************************)
(* moves.rs: Move, LegalMove, PreMove                                      *)
(***************************************************************************)
Move(from, to, promotion) == [from |-> from, to |-> to, promotion |-> promotion]

Standard(from, to) == [tag |-> "Standard", from |-> from, to |-> to, promotion |-> None]

EnPassant(from, to) == [tag |-> "EnPassant", from |-> from, to |-> to, promotion |-> None]

DoubleAdvance(from, to) == [tag |-> "DoubleAdvance", from |-> from, to |-> to, promotion |-> None]

Promoting(from, to, promotion) ==
    [tag |-> "Promoting", from |-> from, to |-> to, promotion |-> Some(promotion)]

ShortCastle == [tag |-> "ShortCastle", from |-> None, to |-> None, promotion |-> None]

LongCastle == [tag |-> "LongCastle", from |-> None, to |-> None, promotion |-> None]

(***************************************************************************)
(* position.rs: Position::apply_move, Position::apply_pre_move             *)
(***************************************************************************)
\* The clock stepped down instead of up (u8 arithmetic).
IncClockDown(clock) == (clock + 255) % 256

\* the clock stepped by two
IncClockTwice(clock) == (clock + 2) % 256

\* moves_since_progress += 1 on its u8
IncClock(clock) == (clock + 1) % 256

\* a castle that leaves the rook on its source square as well
CastleOnKeepsRook(pos, color, rook_src, king_dest, rook_dest) ==
    CastlingClear(
        place(place(remove(pos, king_src(pos, color)),
                    king_dest, Unwrap(pos.squares[king_src(pos, color)])),
              rook_dest, Unwrap(pos.squares[rook_src])),
        color)

\* a castle: king and rook leave their source squares, the king is placed,
\* then the rook, and the rights of the colour are cleared
CastleOn(pos, color, rook_src, king_dest, rook_dest) ==
    CastlingClear(
        place(place(remove(remove(pos, king_src(pos, color)), rook_src),
                    king_dest, Unwrap(pos.squares[king_src(pos, color)])),
              rook_dest, Unwrap(remove(pos, king_src(pos, color)).squares[rook_src])),
        color)

\* the unwraps of Position::apply_move: TRUE when one of them meets a None
\* (an empty source square, an empty en-passant victim square, a missing
\* castling king or rook)
ApplyMovePanics(pos, mv) ==
    CASE mv.tag \in {"Standard", "Promoting"} -> pos.squares[mv.from] = None
      [] mv.tag = "DoubleAdvance" -> pos.squares[mv.from] = None \/ between(mv.from, mv.to) = {}
      [] mv.tag = "EnPassant" ->
            \/ pos.squares[mv.from] = None
            \/ remove(pos, mv.from).squares[SquareNew(FileOf(mv.to), RankOf(mv.from))] = None
      [] mv.tag = "ShortCastle" ->
            \/ pos.squares[king_src(pos, turn(pos))] = None
            \/ remove(pos, king_src(pos, turn(pos))).squares[oo_rook_src(pos, turn(pos))] = None
      [] mv.tag = "LongCastle" ->
            \/ pos.squares[king_src(pos, turn(pos))] = None
            \/ remove(pos, king_src(pos, turn(pos))).squares[ooo_rook_src(pos, turn(pos))] = None

\* apply_move with the en passant square left as it was by a Standard move
PositionApplyMoveKeepsEnPassant(pos, mv) ==
    LET us == turn(pos)
        them == Opp(turn(pos))
        material == Unwrap(pos.squares[mv.from])
        moved ==
            CASE mv.tag = "Standard" ->
                    [CastlingUpdate(CastlingUpdate(place(remove(pos, mv.from), mv.to, material), us, mv.from),
                                    them, mv.to)
                        EXCEPT !.moves_since_progress =
                                    IF IsSome(remove(pos, mv.from).squares[mv.to]) \/ material.piece = "Pawn"
                                    THEN 0 ELSE IncClock(pos.moves_since_progress)]
              [] mv.tag = "EnPassant" ->
                    [place(remove(remove(pos, mv.from), SquareNew(FileOf(mv.to), RankOf(mv.from))),
                           mv.to, material)
                        EXCEPT !.en_passant = None, !.moves_since_progress = 0]
              [] mv.tag = "DoubleAdvance" ->
                    [place(remove(pos, mv.from), mv.to, material)
                        EXCEPT !.en_passant = Some(MinOf(between(mv.from, mv.to))),
                               !.moves_since_progress = 0]
              [] mv.tag = "Promoting" ->
                    [CastlingUpdate(place(remove(pos, mv.from), mv.to,
                                          Material(material.color, Unwrap(mv.promotion))),
                                    them, mv.to)
                        EXCEPT !.en_passant = None, !.moves_since_progress = 0]
              [] mv.tag = "ShortCastle" ->
                    [CastleOn(pos, us, oo_rook_src(pos, us), oo_king_dest(pos, us), oo_rook_dest(pos, us))
                        EXCEPT !.en_passant = None, !.moves_since_progress = IncClock(pos.moves_since_progress)]
              [] mv.tag = "LongCastle" ->
                    [CastleOn(pos, us, ooo_rook_src(pos, us), ooo_king_dest(pos, us), ooo_rook_dest(pos, us))
                        EXCEPT !.en_passant = None, !.moves_since_progress = IncClock(pos.moves_since_progress)]
    IN [moved EXCEPT !.next_move_id = @ + 1]

\* Position::apply_move: the clock is incremented, the move is carried out
\* (a capture, a pawn move, a promotion and an en-passant capture reset the
\* clock), and the move id advances
PositionApplyMove(pos, mv) ==
    LET us == turn(pos)
        them == Opp(turn(pos))
        material == Unwrap(pos.squares[mv.from])
        moved ==
            CASE mv.tag = "Standard" ->
                    [CastlingUpdate(CastlingUpdate(place(remove(pos, mv.from), mv.to, material), us, mv.from),
                                    them, mv.to)
                        EXCEPT !.en_passant = None,
                               !.moves_since_progress =
                                    IF IsSome(remove(pos, mv.from).squares[mv.to]) \/ material.piece = "Pawn"
                                    THEN 0 ELSE IncClock(pos.moves_since_progress)]
              [] mv.tag = "EnPassant" ->
                    [place(remove(remove(pos, mv.from), SquareNew(FileOf(mv.to), RankOf(mv.from))),
                           mv.to, material)
                        EXCEPT !.en_passant = None, !.moves_since_progress = 0]
              [] mv.tag = "DoubleAdvance" ->
                    [place(remove(pos, mv.from), mv.to, material)
                        EXCEPT !.en_passant = Some(MinOf(between(mv.from, mv.to))),
                               !.moves_since_progress = 0]
              [] mv.tag = "Promoting" ->
                    [CastlingUpdate(place(remove(pos, mv.from), mv.to,
                                          Material(material.color, Unwrap(mv.promotion))),
                                    them, mv.to)
                        EXCEPT !.en_passant = None, !.moves_since_progress = 0]
              [] mv.tag = "ShortCastle" ->
                    [CastleOn(pos, us, oo_rook_src(pos, us), oo_king_dest(pos, us), oo_rook_dest(pos, us))
                        EXCEPT !.en_passant = None, !.moves_since_progress = IncClock(pos.moves_since_progress)]
              [] mv.tag = "LongCastle" ->
                    [CastleOn(pos, us, ooo_rook_src(pos, us), ooo_king_dest(pos, us), ooo_rook_dest(pos, us))
                        EXCEPT !.en_passant = None, !.moves_since_progress = IncClock(pos.moves_since_progress)]
    IN [moved EXCEPT !.next_move_id = @ + 1]

\* Position::apply_pre_move: the pre-mover is the side that is not to move
\* ("their" side); the turn, the en-passant square and the clock are kept
ApplyPreMovePanics(pos, mv) ==
    LET them == Opp(turn(pos))
    IN CASE mv.tag \in {"Standard", "Promoting"} -> pos.squares[mv.from] = None
         [] mv.tag = "ShortCastle" ->
               \/ pos.squares[king_src(pos, them)] = None
               \/ remove(pos, king_src(pos, them)).squares[oo_rook_src(pos, them)] = None
         [] mv.tag = "LongCastle" ->
               \/ pos.squares[king_src(pos, them)] = None
               \/ remove(pos, king_src(pos, them)).squares[ooo_rook_src(pos, them)] = None

PositionApplyPreMove(pos, mv) ==
    LET us == turn(pos)
        them == Opp(turn(pos))
        material == Unwrap(pos.squares[mv.from])
    IN CASE mv.tag = "Standard" ->
               CastlingUpdate(CastlingUpdate(place(remove(pos, mv.from), mv.to, material), them, mv.from),
                              us, mv.to)
         [] mv.tag = "Promoting" ->
               CastlingUpdate(place(remove(pos, mv.from), mv.to,
                                    Material(material.color, Unwrap(mv.promotion))),
                              us, mv.to)
         [] mv.tag = "ShortCastle" ->
               CastleOn(pos, them, oo_rook_src(pos, them), oo_king_dest(pos, them), oo_rook_dest(pos, them))
         [] mv.tag = "LongCastle" ->
               CastleOn(pos, them, ooo_rook_src(pos, them), ooo_king_dest(pos, them), ooo_rook_dest(pos, them))

\* Position::key
key(pos) ==
    [turn |-> turn(pos), en_passant |-> pos.en_passant, castling |-> pos.castling, masks |-> pos.masks]

\* mating_material with any two minor pieces taken for two knights
mating_material_minor_pair(pos, side) ==
    LET pieces == pos.masks.pieces[side] \ pos.masks.kings
    IN IF pieces \cap pos.masks.pawns # {} THEN "Sufficient"
       ELSE IF pieces \cap pos.masks.rooks # {} THEN "Sufficient"
       ELSE IF pieces \cap pos.masks.queens # {} THEN "Sufficient"
       ELSE IF Cardinality(pieces) > 2 THEN "Sufficient"
       ELSE IF Cardinality(pieces) = 2 THEN "TwoKnights"
       ELSE IF pieces # {}
            THEN IF pieces = pos.masks.knights THEN "OneKnight" ELSE "OneBishop"
       ELSE "LoneKing"

\* Position::mating_material
mating_material(pos, side) ==
    LET pieces == pos.masks.pieces[side] \ pos.masks.kings
    IN IF pieces \cap pos.masks.pawns # {} THEN "Sufficient"
       ELSE IF pieces \cap pos.masks.rooks # {} THEN "Sufficient"
       ELSE IF pieces \cap pos.masks.queens # {} THEN "Sufficient"
       ELSE IF Cardinality(pieces) > 2 THEN "Sufficient"
       ELSE IF Cardinality(pieces) = 2
            THEN IF pieces = pos.masks.knights THEN "TwoKnights" ELSE "Sufficient"
       ELSE IF pieces # {}
            THEN IF pieces = pos.masks.knights THEN "OneKnight" ELSE "OneBishop"
       ELSE "LoneKing"

(***************************************************************************)
(* moves.rs: MoveState, the attack and pin cache                           *)
(***************************************************************************)
\* MoveState::exclude_blocked_attacks
exclude_blocked_attacks(pos, from, mask) ==
    LET unshielded(m) == m \ UNION {shielded(from, square) : square \in ours(pos) \cap m}
    IN unshielded(mask \ UNION {blocked(from, square) : square \in theirs(pos) \cap mask})

\* MoveState::exclude_blocked_moves
exclude_blocked_moves(pos, from, mask) ==
    LET unshielded(m) == m \ UNION {shielded(from, square) : square \in theirs(pos) \cap m}
    IN unshielded(mask \ UNION {blocked(from, square) : square \in ours(pos) \cap mask})

\* MoveState::attacked
attacked(pos, from) ==
    IF pos.squares[from] = None THEN {}
    ELSE LET material == Unwrap(pos.squares[from])
         IN CASE material.piece = "King" -> KING_MOVES[from]
              [] material.piece = "Queen" -> exclude_blocked_attacks(pos, from, QUEEN_MOVES[from])
              [] material.piece = "Rook" -> exclude_blocked_attacks(pos, from, ROOK_MOVES[from])
              [] material.piece = "Bishop" -> exclude_blocked_attacks(pos, from, BISHOP_MOVES[from])
              [] material.piece = "Knight" -> KNIGHT_MOVES[from]
              [] material.piece = "Pawn" ->
                    IF material.color = "White" THEN WHITE_PAWN_ATTACKS[from]
                    ELSE BLACK_PAWN_ATTACKS[from]

\* the sliders of the other side whose lane to the king holds exactly one
\* piece, a piece of ours standing on `square`
Pinners(pos, king, square) ==
    LET single(lanes) ==
            {from \in DOMAIN lanes : lanes[from] # {} /\ lanes[from] \cap occupied(pos) = {square}}
    IN IF square \in ours(pos)
       THEN single([from \in their_line_pieces(pos) |-> between(from, king)])
       ELSE {}

\* the pin lane registered for a square: the loop over the sliders runs in
\* ascending square order, so the lane of the last pinner is the one that stays
PinLane(king, pinners) == IF pinners = {} THEN None ELSE Some(between(MaxOf(pinners), king))

\* MoveState::new / MoveState::init: the cache computed from a position
MoveStateNew(pos) ==
    LET cache(attackers, king) ==
            [position |-> pos,
             checks |-> attackers[king],
             attackers |-> attackers,
             pinned |-> [square \in Squares |-> PinLane(king, Pinners(pos, king, square))]]
        by_target(atk) == [to \in Squares |-> {from \in DOMAIN atk : to \in atk[from]}]
    IN cache(by_target([from \in theirs(pos) |-> attacked(pos, from)]), our_king(pos))

is_check(ms) == ms.checks # {}

is_double_check(ms) == Cardinality(ms.checks) > 1

is_attacked(ms, square) == ms.attackers[square] # {}

is_lane_blocked(ms, lane) == lane \cap occupied(ms.position) # {}

is_lane_attacked(ms, lane) == \E square \in lane : is_attacked(ms, square)

\* MoveState::apply_move: Position::apply_move, then reset()
MoveStateApplyMove(ms, mv) == MoveStateNew(PositionApplyMove(ms.position, mv))

\* MoveState::apply_move panics when an unwrap of Position::apply_move fails
\* or when reset() finds no king of the side to move (Pos::our_king)
MoveStateApplyMovePanics(ms, mv) ==
    \/ ApplyMovePanics(ms.position, mv)
    \/ ~HasOurKing(PositionApplyMove(ms.position, mv))

(***************************************************************************)
(* moves.rs: MoveSet and the legal-move generator                          *)
(***************************************************************************)
\* A MoveSet (destination mask plus a map from destination to move) is a
\* function from its destinations to the recorded moves.
MoveSetNew == [d \in {} |-> None]

destinations(set) == DOMAIN set

\* MoveSet::contains
contains(set, square) == square \in DOMAIN set

\* MoveSet::get: the move recorded for a destination, or None
get(set, to) == IF to \in DOMAIN set THEN Some(set[to]) ELSE None

\* MoveSet | MoveSet: the entries of rhs are inserted over those of lhs
MoveSetOr(lhs, rhs) ==
    [d \in (DOMAIN lhs) \cup (DOMAIN rhs) |-> IF d \in DOMAIN rhs THEN rhs[d] ELSE lhs[d]]

standard_king_moves(ms, from) ==
    LET unattacked(mask) == [dest \in {d \in mask : ~is_attacked(ms, d)} |-> Standard(from, dest)]
    IN unattacked((KING_MOVES[from] \ ours(ms.position))
                  \ UNION {shielded(square, from) :
                              square \in ms.attackers[from] \cap line_pieces(ms.position)})

short_castle_moves(ms) ==
    LET pos == ms.position
        us == turn(pos)
    IN IF pos.castling[us].oo
          /\ ~is_attacked(ms, king_src(pos, us))
          /\ ~is_lane_blocked(ms, oo_blocking_lane(pos, us))
          /\ ~is_lane_attacked(ms, oo_attacking_lane(pos, us))
          /\ ~is_attacked(ms, oo_king_dest(pos, us))
       THEN [d \in {oo_king_dest(pos, us), oo_rook_src(pos, us)} |-> ShortCastle]
       ELSE MoveSetNew

long_castle_moves(ms) ==
    LET pos == ms.position
        us == turn(pos)
    IN IF pos.castling[us].ooo
          /\ ~is_attacked(ms, king_src(pos, us))
          /\ ~is_lane_blocked(ms, ooo_blocking_lane(pos, us))
          /\ ~is_lane_attacked(ms, ooo_attacking_lane(pos, us))
          /\ ~is_attacked(ms, ooo_king_dest(pos, us))
       THEN [d \in {ooo_king_dest(pos, us), ooo_rook_src(pos, us)} |-> LongCastle]
       ELSE MoveSetNew

all_castle_moves(ms) == MoveSetOr(short_castle_moves(ms), long_castle_moves(ms))

all_king_moves(ms, from) == MoveSetOr(standard_king_moves(ms, from), all_castle_moves(ms))

\* the destinations of a move restricted to the pin lane of its source square
PinRestricted(ms, from, mask) ==
    IF IsSome(ms.pinned[from]) THEN mask \cap Unwrap(ms.pinned[from]) ELSE mask

all_line_moves(ms, from, mask) ==
    IF ~is_double_check(ms)
    THEN [dest \in exclude_blocked_moves(ms.position, from, PinRestricted(ms, from, mask))
              |-> Standard(from, dest)]
    ELSE MoveSetNew

\* knight moves that are generated in a double check as well
all_knight_moves_in_double_check(ms, from) ==
    IF ms.pinned[from] = None
    THEN [dest \in KNIGHT_MOVES[from] \ ours(ms.position) |-> Standard(from, dest)]
    ELSE MoveSetNew

all_knight_moves(ms, from) ==
    IF ~is_double_check(ms) /\ ms.pinned[from] = None
    THEN [dest \in KNIGHT_MOVES[from] \ ours(ms.position) |-> Standard(from, dest)]
    ELSE MoveSetNew

standard_pawn_moves(ms, from) ==
    IF ~is_double_check(ms)
    THEN IF turn(ms.position) = "White"
         THEN [dest \in (PinRestricted(ms, from, WHITE_SINGLE_ADVANCES[from]) \ occupied(ms.position))
                        \cup (PinRestricted(ms, from, WHITE_PAWN_ATTACKS[from]) \cap theirs(ms.position))
                  |-> Standard(from, dest)]
         ELSE [dest \in (PinRestricted(ms, from, BLACK_SINGLE_ADVANCES[from]) \ occupied(ms.position))
                        \cup (PinRestricted(ms, from, BLACK_PAWN_ATTACKS[from]) \cap theirs(ms.position))
                  |-> Standard(from, dest)]
    ELSE MoveSetNew

\* a generator without double advances
double_advance_moves_none(ms, from) == MoveSetNew

double_advance_moves(ms, from) ==
    LET unblocked(mask) ==
            [dest \in {d \in mask : between(from, d) \cap occupied(ms.position) = {}}
                |-> DoubleAdvance(from, dest)]
    IN IF ~is_double_check(ms)
       THEN unblocked(PinRestricted(ms, from,
                          IF turn(ms.position) = "White" THEN WHITE_DOUBLE_ADVANCES[from]
                          ELSE BLACK_DOUBLE_ADVANCES[from])
                      \ occupied(ms.position))
       ELSE MoveSetNew

en_passant_moves(ms, from) ==
    IF ~is_double_check(ms) /\ IsSome(ms.position.en_passant)
    THEN [dest \in PinRestricted(ms, from,
                       (IF turn(ms.position) = "White" THEN WHITE_PAWN_ATTACKS[from]
                        ELSE BLACK_PAWN_ATTACKS[from])
                       \cap {Unwrap(ms.position.en_passant)})
              |-> EnPassant(from, dest)]
    ELSE MoveSetNew

all_pawn_moves(ms, from) ==
    MoveSetOr(MoveSetOr(standard_pawn_moves(ms, from), double_advance_moves(ms, from)),
              en_passant_moves(ms, from))

\* LegalMoves::legal_moves
legal_moves(ms, from) ==
    LET pos == ms.position
    IN IF IsSome(pos.squares[from]) /\ Unwrap(pos.squares[from]).color = turn(pos)
       THEN LET piece == Unwrap(pos.squares[from]).piece
            IN CASE piece = "King" -> all_king_moves(ms, from)
                 [] piece = "Queen" -> all_line_moves(ms, from, QUEEN_MOVES[from])
                 [] piece = "Rook" -> all_line_moves(ms, from, ROOK_MOVES[from])
                 [] piece = "Bishop" -> all_line_moves(ms, from, BISHOP_MOVES[from])
                 [] piece = "Knight" -> all_knight_moves(ms, from)
                 [] piece = "Pawn" -> all_pawn_moves(ms, from)
       ELSE MoveSetNew

\* LegalMoves::validate_move.  The result is Ok with a LegalMove, the
\* InvalidMove error, or a panic: for a move without promotion the recorded
\* move is looked up under mv.from and unwrapped.
Ok(mv) == [kind |-> "Ok", mv |-> Some(mv)]

InvalidMove == [kind |-> "InvalidMove", mv |-> None]

Panic == [kind |-> "Panic", mv |-> None]

\* the part of validate_move / validate_pre_move after the move set of
\* mv.from is computed; material is the piece on mv.from
validate_in(moves, material, mv) ==
    IF ~contains(moves, mv.to) THEN InvalidMove
    ELSE IF IsSome(mv.promotion)
         THEN IF Unwrap(material).piece # "Pawn" THEN InvalidMove
              ELSE IF is_back_rank(RankOf(mv.to), Opp(Unwrap(material).color)) THEN InvalidMove
              ELSE Ok(Promoting(mv.from, mv.to, Unwrap(mv.promotion)))
         ELSE IF IsSome(get(moves, mv.from)) THEN Ok(Unwrap(get(moves, mv.from)))
              ELSE Panic

validate_move(ms, mv) == validate_in(legal_moves(ms, mv.from), ms.position.squares[mv.from], mv)

(***************************************************************************)
(* moves.rs: pre-moves (a Position is enough, no cache is read)            *)
(***************************************************************************)
short_castle_targets(pos) ==
    IF pos.castling[Opp(turn(pos))].oo
    THEN {oo_king_dest(pos, Opp(turn(pos))), oo_rook_dest(pos, Opp(turn(pos)))}
    ELSE {}

long_castle_targets(pos) ==
    IF pos.castling[Opp(turn(pos))].ooo
    THEN {ooo_king_dest(pos, Opp(turn(pos))), ooo_rook_dest(pos, Opp(turn(pos)))}
    ELSE {}

\* PreMoves::pre_moves
pre_moves_from(pos, from) ==
    IF IsSome(pos.squares[from]) /\ Unwrap(pos.squares[from]).color = Opp(turn(pos))
    THEN LET piece == Unwrap(pos.squares[from]).piece
             std(mask) == [dest \in mask |-> Standard(from, dest)]
         IN CASE piece = "King" ->
                    MoveSetOr(MoveSetOr(std(KING_MOVES[from]),
                                        [d \in short_castle_targets(pos) |-> ShortCastle]),
                              [d \in long_castle_targets(pos) |-> LongCastle])
              [] piece = "Queen" -> std(QUEEN_MOVES[from])
              [] piece = "Rook" -> std(ROOK_MOVES[from])
              [] piece = "Bishop" -> std(BISHOP_MOVES[from])
              [] piece = "Knight" -> std(KNIGHT_MOVES[from])
              [] piece = "Pawn" ->
                    std(IF turn(pos) = "White" THEN WHITE_PAWN_MOVES[from] ELSE BLACK_PAWN_MOVES[from])
    ELSE MoveSetNew

\* PreMoves::validate_pre_move
validate_pre_move(pos, mv) == validate_in(pre_moves_from(pos, mv.from), pos.squares[mv.from], mv)

(***************************************************************************)
(* play.rs: engine mode results                                            *)
(***************************************************************************)
CheckMate(color) == [result |-> "CheckMate", color |-> color]

StaleMate == [result |-> "StaleMate", color |-> "None"]

Insufficient == [result |-> "Insufficient", color |-> "None"]

Repetition == [result |-> "Repetition", color |-> "None"]

FiftyMoves == [result |-> "FiftyMoves", color |-> "None"]

\* PlayState<EngineMode>::can_move
can_move(ms) == \E from \in ours(ms.position) : destinations(legal_moves(ms, from)) # {}

\* is_insufficient with two knights deciding before a lone king does
is_insufficient_two_knights_first(pos) ==
    LET mine == mating_material(pos, turn(pos))
        other == mating_material(pos, Opp(turn(pos)))
    IN IF mine = "Sufficient" THEN FALSE
       ELSE IF other = "Sufficient" THEN FALSE
       ELSE IF mine = "TwoKnights" THEN FALSE
       ELSE IF other = "TwoKnights" THEN FALSE
       ELSE TRUE

\* PlayState<EngineMode>::is_insufficient
is_insufficient(pos) ==
    LET mine == mating_material(pos, turn(pos))
        other == mating_material(pos, Opp(turn(pos)))
    IN IF mine = "Sufficient" THEN FALSE
       ELSE IF other = "Sufficient" THEN FALSE
       ELSE IF mine = "LoneKing" THEN TRUE
       ELSE IF other = "LoneKing" THEN TRUE
       ELSE IF mine = "TwoKnights" THEN FALSE
       ELSE IF other = "TwoKnights" THEN FALSE
       ELSE TRUE

\* the repetitions map (HashMap<PositionKey, u8>) is a function from the
\* keys it holds to their counts
NoRepetitions == [k \in {} |-> 0]

\* PlayState<EngineMode>::update_repetitions: the map after the update
update_repetitions(reps, pos) ==
    LET kept == IF pos.moves_since_progress = 0 THEN NoRepetitions ELSE reps
        k == key(pos)
    IN [x \in (DOMAIN kept) \cup {k} |->
            IF x = k THEN ((IF k \in DOMAIN kept THEN kept[k] ELSE 0) + 1) % 256 ELSE kept[x]]

\* update_result with the halfmove clock asked before the repetition count
update_result_clock_first(ms, reps) ==
    IF ~can_move(ms)
    THEN IF is_check(ms) THEN Some(CheckMate(Opp(turn(ms.position)))) ELSE Some(StaleMate)
    ELSE IF ms.position.moves_since_progress = 100 THEN Some(FiftyMoves)
    ELSE IF reps[key(ms.position)] >= 3 THEN Some(Repetition)
    ELSE IF is_insufficient(ms.position) THEN Some(Insufficient)
    ELSE None

\* PlayState<EngineMode>::update_result: the result, given the updated map
update_result(ms, reps) ==
    IF ~can_move(ms)
    THEN IF is_check(ms) THEN Some(CheckMate(Opp(turn(ms.position)))) ELSE Some(StaleMate)
    ELSE IF reps[key(ms.position)] >= 3 THEN Some(Repetition)
    ELSE IF ms.position.moves_since_progress = 100 THEN Some(FiftyMoves)
    ELSE IF is_insufficient(ms.position) THEN Some(Insufficient)
    ELSE None

(***************************************************************************)
(* review.rs: ReviewState                                                  *)
(***************************************************************************)
\* ReviewState::new
ReviewNew(id) == [offset |-> 0, history |-> <<MoveStateNew(PositionNew(lookup(id)))>>]

\* Review::at_end
at_end(rv) == rv.offset = Len(rv.history) - 1

\* push that replaces the last entry
ReviewPushOverLast(rv, ms) ==
    [offset |-> IF at_end(rv) THEN rv.offset + 1 ELSE rv.offset,
     history |-> Append(SubSeq(rv.history, 1, Len(rv.history) - 1), ms)]

\* push that always moves the cursor to the new entry
ReviewPushToEnd(rv, ms) == [offset |-> Len(rv.history), history |-> Append(rv.history, ms)]

\* ReviewState::push
ReviewPush(rv, ms) ==
    [offset |-> IF at_end(rv) THEN rv.offset + 1 ELSE rv.offset,
     history |-> Append(rv.history, ms)]

(***************************************************************************)
(* State                                                                   *)
(***************************************************************************)
VARIABLES
    board,          \* the object that is driven: "Engine", "Player" or a bare "MoveState"
    move_state,     \* PlayState.move_state (or the bare MoveState)
    history,        \* PlayState.history
    repetitions,    \* EngineMode.repetitions
    board_result,   \* EngineMode.board_result
    side,           \* PlayerMode.side
    preview,        \* PlayerMode.preview
    review,         \* PlayerMode.review
    pre_moves,      \* PlayerMode.pre_moves
    outcome,        \* how the last call ended: "Ok", "InvalidMove" or "Panic" ("None" before any call)
    script          \* per scripted game, how many calls so far followed it (-1 once they left it);
                    \* for a replay, its arguments and the index of the next Move

vars == <<board, move_state, history, repetitions, board_result, side, preview, review,
          pre_moves, outcome, script>>

\* Bounds of the exploration: moves applied to a board, queued pre-moves,
\* moves applied to a bare MoveState
MaxPly == 4

MaxPreMoves == 2

MaxGenPly == 9

\* the largest index handed to BackRankId::try_from
MaxIndex == 960

\* the ids the boards are asked to be built with: none (the default id is
\* taken), the standard one, id 1 (QBBNNRKR, whose king starts on the
\* g-file), and the index MaxIndex, which try_from does not accept
StartIndexes == {None} \cup {Some(i) : i \in {STANDARD, 1, MaxIndex}}

\* the squares the inputs name, as the Square enum names them
Sq ==
    [A2 |-> SquareNew(FileA, Rank2), A4 |-> SquareNew(FileA, Rank4), A5 |-> SquareNew(FileA, Rank5),
     A6 |-> SquareNew(FileA, Rank6), A7 |-> SquareNew(FileA, Rank7), A8 |-> SquareNew(FileA, Rank8),
     B5 |-> SquareNew(FileB, Rank5), B7 |-> SquareNew(FileB, Rank7), C8 |-> SquareNew(FileC, Rank8),
     D5 |-> SquareNew(FileD, Rank5), D7 |-> SquareNew(FileD, Rank7), D8 |-> SquareNew(FileD, Rank8),
     E1 |-> SquareNew(FileE, Rank1), E2 |-> SquareNew(FileE, Rank2), E4 |-> SquareNew(FileE, Rank4),
     E5 |-> SquareNew(FileE, Rank5), E7 |-> SquareNew(FileE, Rank7), E8 |-> SquareNew(FileE, Rank8),
     F1 |-> SquareNew(FileF, Rank1), F2 |-> SquareNew(FileF, Rank2), F3 |-> SquareNew(FileF, Rank3),
     F6 |-> SquareNew(FileF, Rank6), G1 |-> SquareNew(FileG, Rank1), G2 |-> SquareNew(FileG, Rank2),
     G4 |-> SquareNew(FileG, Rank4), G8 |-> SquareNew(FileG, Rank8), H1 |-> SquareNew(FileH, Rank1),
     H4 |-> SquareNew(FileH, Rank4), H8 |-> SquareNew(FileH, Rank8), B1 |-> SquareNew(FileB, Rank1),
     B2 |-> SquareNew(FileB, Rank2), B6 |-> SquareNew(FileB, Rank6), C2 |-> SquareNew(FileC, Rank2),
     C7 |-> SquareNew(FileC, Rank7), D2 |-> SquareNew(FileD, Rank2), D6 |-> SquareNew(FileD, Rank6),
     F7 |-> SquareNew(FileF, Rank7), G5 |-> SquareNew(FileG, Rank5), H5 |-> SquareNew(FileH, Rank5),
     D1 |-> SquareNew(FileD, Rank1), A1 |-> SquareNew(FileA, Rank1)]

\* the fool's mate: 1. f3 e5 2. g4 Qh4
FoolsMate ==
    <<Move(Sq.F2, Sq.F3, None), Move(Sq.E7, Sq.E5, None), Move(Sq.G2, Sq.G4, None), Move(Sq.D8, Sq.H4, None)>>

\* the knight shuffle: Nf3 Nf6 Ng1 Ng8, twice
KnightShuffle ==
    <<Move(Sq.G1, Sq.F3, None), Move(Sq.G8, Sq.F6, None), Move(Sq.F3, Sq.G1, None), Move(Sq.F6, Sq.G8, None),
      Move(Sq.G1, Sq.F3, None), Move(Sq.G8, Sq.F6, None), Move(Sq.F3, Sq.G1, None), Move(Sq.F6, Sq.G8, None)>>

\* the Moves submitted to the boards: the scripted games, pawn moves with
\* and without a promotion piece, castling requests, a move that is not
\* generated, and pawn pre-moves against the direction of play
Inputs ==
    {FoolsMate[i] : i \in 1..Len(FoolsMate)} \cup {KnightShuffle[i] : i \in 1..Len(KnightShuffle)}
    \cup {Move(Sq.E2, Sq.E4, None), Move(Sq.E2, Sq.E4, Some("Queen")), Move(Sq.A2, Sq.A4, Some("Queen")),
          Move(Sq.D7, Sq.D5, Some("Knight")), Move(Sq.E7, Sq.E5, Some("Queen")), Move(Sq.E2, Sq.E5, None),
          Move(Sq.G1, Sq.H1, None), Move(Sq.G8, Sq.H8, None), Move(Sq.G1, Sq.F1, Some("Queen")),
          Move(Sq.E7, Sq.E8, Some("Queen")), Move(Sq.E2, Sq.E1, Some("Rook"))}

\* the (from, to) pairs tried on a bare MoveState
GenMoves ==
    {<<Sq.E2, Sq.E4>>, <<Sq.D7, Sq.D5>>, <<Sq.F1, Sq.B5>>, <<Sq.B5, Sq.E8>>, <<Sq.A7, Sq.A6>>,
     <<Sq.A2, Sq.A4>>, <<Sq.A4, Sq.A5>>, <<Sq.A5, Sq.A6>>, <<Sq.A6, Sq.B7>>, <<Sq.B7, Sq.A8>>, <<Sq.G8, Sq.F6>>, <<Sq.F6, Sq.G8>>,
     <<Sq.G1, Sq.F3>>, <<Sq.F3, Sq.G1>>, <<Sq.F2, Sq.F3>>, <<Sq.E7, Sq.E5>>, <<Sq.G2, Sq.G4>>, <<Sq.D8, Sq.H4>>}

\* the next progress of a scripted game after a call with mv
ScriptAfter(mv) ==
    LET step(n, game) == IF n >= 0 /\ n < Len(game) /\ game[n + 1] = mv THEN n + 1 ELSE -1
    IN [fools |-> step(script.fools, FoolsMate), shuffle |-> step(script.shuffle, KnightShuffle)]

(***************************************************************************)
(* Construction                                                            *)
(***************************************************************************)
\* PlayState::plays_both(id): EngineBoard::standard() is the case id = 0
InitEngine ==
    \E index \in StartIndexes :
        /\ index # None => ValidBackRankId(Unwrap(index))
        /\ LET id == IF index = None THEN STANDARD ELSE Unwrap(index)
           IN /\ board = "Engine"
              /\ move_state = MoveStateNew(PositionNew(lookup(id)))
              /\ history = <<>>
              /\ repetitions = NoRepetitions
              /\ board_result = None
              /\ side = "Both"
              /\ preview = None
              /\ review = None
              /\ pre_moves = <<>>
              /\ outcome = "None"
              /\ script = IF id = 0 THEN [fools |-> 0, shuffle |-> 0]
                          ELSE [fools |-> -1, shuffle |-> -1]

\* PlayState::plays_white(id) and PlayState::plays_black(id)
InitPlayer ==
    \E index \in StartIndexes, color \in Colors :
        /\ index # None => ValidBackRankId(Unwrap(index))
        /\ LET id == IF index = None THEN STANDARD ELSE Unwrap(index)
           IN /\ board = "Player"
              /\ move_state = MoveStateNew(PositionNew(lookup(id)))
              /\ history = <<>>
              /\ repetitions = NoRepetitions
              /\ board_result = None
              /\ side = color
              /\ preview = None
              /\ review = ReviewNew(id)
              /\ pre_moves = <<>>
              /\ outcome = "None"
              /\ script = [fools |-> -1, shuffle |-> -1]

Init == InitEngine \/ InitPlayer

\* MoveState::new(Position::new(backrank)); MoveState::default() is id 0
InitGen ==
    /\ board = "MoveState"
    /\ move_state = MoveStateNew(PositionNew(lookup(0)))
    /\ history = <<>>
    /\ repetitions = NoRepetitions
    /\ board_result = None
    /\ side = "Both"
    /\ preview = None
    /\ review = None
    /\ pre_moves = <<>>
    /\ outcome = "None"
    /\ script = [fools |-> -1, shuffle |-> -1]

(***************************************************************************)
(* play.rs: engine mode                                                    *)
(***************************************************************************)
\* PlayState<EngineMode>::submit_move: validate, apply, push to the history,
\* update the repetitions and the result.  A panic ends the use of the board.
submit_move(es, mv) ==
    LET v == validate_move(es.move_state, mv)
        applied(ms) ==
            [move_state |-> ms,
             history |-> Append(es.history, Unwrap(v.mv)),
             repetitions |-> update_repetitions(es.repetitions, ms.position),
             board_result |-> update_result(ms, update_repetitions(es.repetitions, ms.position)),
             outcome |-> "Ok"]
    IN IF v.kind = "Ok" /\ ~MoveStateApplyMovePanics(es.move_state, Unwrap(v.mv))
       THEN applied(MoveStateApplyMove(es.move_state, Unwrap(v.mv)))
       ELSE [es EXCEPT !.outcome = IF v.kind = "InvalidMove" THEN "InvalidMove" ELSE "Panic"]

\* EngineBoard::submit_move
SubmitMove(mv) ==
    /\ board = "Engine"
    /\ outcome # "Panic"
    /\ Len(history) < MaxPly
    /\ LET set(es) ==
               /\ move_state' = es.move_state
               /\ history' = es.history
               /\ repetitions' = es.repetitions
               /\ board_result' = es.board_result
               /\ outcome' = es.outcome
       IN set(submit_move([move_state |-> move_state, history |-> history,
                           repetitions |-> repetitions, board_result |-> board_result,
                           outcome |-> outcome], mv))
    /\ script' = ScriptAfter(mv)
    /\ UNCHANGED <<board, side, preview, review, pre_moves>>

(***************************************************************************)
(* play.rs: player mode.  The player state is handled as one record so     *)
(* that the resubmission loop of submit_their_move can be folded.          *)
(***************************************************************************)
PlayerState ==
    [move_state |-> move_state, history |-> history, preview |-> preview, review |-> review,
     pre_moves |-> pre_moves, outcome |-> outcome]

\* PlayState<PlayerMode>::our_turn
our_turn(ps) == turn(ps.move_state.position) = side

\* PlayState<PlayerMode>::submit_legal_move
submit_legal_move(ps, mv) ==
    IF MoveStateApplyMovePanics(ps.move_state, mv)
    THEN [ps EXCEPT !.outcome = "Panic"]
    ELSE LET ms == MoveStateApplyMove(ps.move_state, mv)
         IN [ps EXCEPT !.move_state = ms,
                       !.history = Append(@, mv),
                       !.review = ReviewPush(@, ms),
                       !.outcome = "Ok"]

\* PlayState<PlayerMode>::preview_mut: the preview, created from the live
\* position when there is none
preview_mut(ps) == IF ps.preview = None THEN ps.move_state.position ELSE Unwrap(ps.preview)

\* submit_our_move with an accepted pre-move also pushed to the history
submit_our_move_records_pre_move(ps, mv) ==
    IF our_turn(ps)
    THEN LET v == validate_move(ps.move_state, mv)
         IN IF v.kind = "Ok" THEN submit_legal_move(ps, Unwrap(v.mv))
            ELSE [ps EXCEPT !.outcome = v.kind]
    ELSE LET v == validate_pre_move(ps.move_state.position, mv)
         IN IF v.kind # "Ok" THEN [ps EXCEPT !.outcome = v.kind]
            ELSE IF ApplyPreMovePanics(preview_mut(ps), Unwrap(v.mv))
                 THEN [ps EXCEPT !.preview = Some(preview_mut(ps)), !.outcome = "Panic"]
                 ELSE [ps EXCEPT !.preview = Some(PositionApplyPreMove(preview_mut(ps), Unwrap(v.mv))),
                                 !.pre_moves = Append(@, mv),
                                 !.history = Append(@, Unwrap(v.mv)),
                                 !.outcome = "Ok"]

\* PlayState<PlayerMode>::submit_our_move
submit_our_move(ps, mv) ==
    IF our_turn(ps)
    THEN LET v == validate_move(ps.move_state, mv)
         IN IF v.kind = "Ok" THEN submit_legal_move(ps, Unwrap(v.mv))
            ELSE [ps EXCEPT !.outcome = v.kind]
    ELSE LET v == validate_pre_move(ps.move_state.position, mv)
         IN IF v.kind # "Ok" THEN [ps EXCEPT !.outcome = v.kind]
            ELSE IF ApplyPreMovePanics(preview_mut(ps), Unwrap(v.mv))
                 THEN [ps EXCEPT !.preview = Some(preview_mut(ps)), !.outcome = "Panic"]
                 ELSE [ps EXCEPT !.preview = Some(PositionApplyPreMove(preview_mut(ps), Unwrap(v.mv))),
                                 !.pre_moves = Append(@, mv),
                                 !.outcome = "Ok"]

\* the loop of submit_their_move that resubmits the queued pre-moves: it
\* stops at the first error, which is not reported
RECURSIVE Resubmit(_, _)
Resubmit(ps, queue) ==
    IF queue = <<>> THEN ps
    ELSE LET r == submit_our_move(ps, Head(queue))
         IN IF r.outcome = "Ok" THEN Resubmit(r, Tail(queue))
            ELSE IF r.outcome = "Panic" THEN r
            ELSE [r EXCEPT !.outcome = "Ok"]

\* submit_their_move without the rollback of the queue and the preview
submit_their_move_keeps_queue(ps, mv) ==
    LET v == validate_move(ps.move_state, mv)
    IN IF v.kind # "Ok" THEN [ps EXCEPT !.outcome = v.kind]
       ELSE LET applied == submit_legal_move(ps, Unwrap(v.mv))
            IN IF applied.outcome = "Panic" THEN applied
               ELSE Resubmit(applied, ps.pre_moves)

\* submit_their_move with the rollback done before the validation
submit_their_move_rolls_back_first(ps, mv) ==
    LET v == validate_move(ps.move_state, mv)
        rolled == [ps EXCEPT !.preview = None, !.pre_moves = <<>>]
    IN IF v.kind # "Ok" THEN [rolled EXCEPT !.outcome = v.kind]
       ELSE LET applied == submit_legal_move(rolled, Unwrap(v.mv))
            IN IF applied.outcome = "Panic" THEN applied
               ELSE Resubmit(applied, ps.pre_moves)

\* PlayState<PlayerMode>::submit_their_move
submit_their_move(ps, mv) ==
    LET v == validate_move(ps.move_state, mv)
    IN IF v.kind # "Ok" THEN [ps EXCEPT !.outcome = v.kind]
       ELSE LET rolled == [ps EXCEPT !.preview = None, !.pre_moves = <<>>]
                applied == submit_legal_move(rolled, Unwrap(v.mv))
            IN IF applied.outcome = "Panic" THEN applied
               ELSE Resubmit(applied, ps.pre_moves)

SetPlayerState(ps) ==
    /\ move_state' = ps.move_state
    /\ history' = ps.history
    /\ preview' = ps.preview
    /\ review' = ps.review
    /\ pre_moves' = ps.pre_moves
    /\ outcome' = ps.outcome

\* PlayerBoard::submit_our_move, on our turn or as a pre-move
SubmitOurMove(mv) ==
    /\ board = "Player"
    /\ outcome # "Panic"
    /\ Len(history) < MaxPly
    /\ Len(pre_moves) < MaxPreMoves
    /\ SetPlayerState(submit_our_move(PlayerState, mv))
    /\ UNCHANGED <<board, repetitions, board_result, side, script>>

\* PlayerBoard::submit_their_move, which the caller uses on their turn only
SubmitTheirMove(mv) ==
    /\ board = "Player"
    /\ outcome # "Panic"
    /\ Len(history) < MaxPly
    /\ ~our_turn(PlayerState)
    /\ SetPlayerState(submit_their_move(PlayerState, mv))
    /\ UNCHANGED <<board, repetitions, board_result, side, script>>

\* cancel_pre_moves with the preview left in place
CancelPreMovesKeepsPreview ==
    /\ board = "Player"
    /\ outcome # "Panic"
    /\ pre_moves # <<>>
    /\ pre_moves' = <<>>
    /\ UNCHANGED <<board, move_state, history, repetitions, board_result, side, preview, review,
                   outcome, script>>

\* cancel_pre_moves that drops the preview and leaves the queue
CancelPreMovesKeepsQueue ==
    /\ board = "Player"
    /\ outcome # "Panic"
    /\ pre_moves # <<>>
    /\ preview' = None
    /\ UNCHANGED <<board, move_state, history, repetitions, board_result, side, review,
                   pre_moves, outcome, script>>

\* PlayState<PlayerMode>::cancel_pre_moves
CancelPreMoves ==
    /\ board = "Player"
    /\ outcome # "Panic"
    /\ pre_moves # <<>>
    /\ preview' = None
    /\ pre_moves' = <<>>
    /\ UNCHANGED <<board, move_state, history, repetitions, board_result, side, review,
                   outcome, script>>

\* ReviewMut::set_offset with an offset into the review history, as
\* forward, back, skip_to_start and skip_to_end call it
SetOffset(offset) ==
    /\ board = "Player"
    /\ outcome # "Panic"
    /\ offset \in 0..(Len(review.history) - 1)
    /\ review' = [review EXCEPT !.offset = offset]
    /\ UNCHANGED <<board, move_state, history, repetitions, board_result, side, preview,
                   pre_moves, outcome, script>>

\* view with the preview asked before the review cursor
view_preview_first(ps) ==
    IF ps.preview # None THEN Unwrap(ps.preview)
    ELSE IF ~at_end(ps.review) THEN ps.review.history[ps.review.offset + 1].position
    ELSE ps.move_state.position

\* PlayState<PlayerMode>::view, with preview(): the review's current
\* position while the cursor is not at the end, else the preview, else the
\* live position
view(ps) ==
    IF ~at_end(ps.review) THEN ps.review.history[ps.review.offset + 1].position
    ELSE IF ps.preview # None THEN Unwrap(ps.preview)
    ELSE ps.move_state.position

Next ==
    \/ \E mv \in Inputs : SubmitMove(mv)
    \/ \E mv \in Inputs : SubmitOurMove(mv)
    \/ \E mv \in Inputs : SubmitTheirMove(mv)
    \/ CancelPreMoves
    \/ \E offset \in 0..(MaxPly + 1) : SetOffset(offset)

Spec == Init /\ [][Next]_vars

(***************************************************************************)
(* moves.rs: a bare MoveState driven with the moves its generator records  *)
(***************************************************************************)
\* MoveState::apply_move(legal_moves(from).get(to).unwrap())
ApplyGenerated(from, to) ==
    /\ board = "MoveState"
    /\ outcome # "Panic"
    /\ move_state.position.next_move_id < MaxGenPly
    /\ contains(legal_moves(move_state, from), to)
    /\ LET mv == Unwrap(get(legal_moves(move_state, from), to))
       IN IF MoveStateApplyMovePanics(move_state, mv)
          THEN outcome' = "Panic" /\ UNCHANGED move_state
          ELSE outcome' = "Ok" /\ move_state' = MoveStateApplyMove(move_state, mv)
    /\ UNCHANGED <<board, history, repetitions, board_result, side, preview, review,
                   pre_moves, script>>

SpecGen == InitGen /\ [][\E m \in GenMoves : ApplyGenerated(m[1], m[2])]_vars

\* the (from, to) pairs tried on a bare MoveState to move, castle with and
\* capture the kings and the king-side rooks: the knights to f3 and f6, the
\* white knight on to g5, f7 and h8, the e-pawn and the bishop out of the
\* way, the castle by its king and by its rook square, and king and rook
\* steps of both colours
CastleMoves ==
    {<<Sq.G1, Sq.F3>>, <<Sq.F3, Sq.G5>>, <<Sq.G5, Sq.F7>>, <<Sq.F7, Sq.H8>>, <<Sq.E2, Sq.E4>>,
     <<Sq.F1, Sq.E2>>, <<Sq.E1, Sq.G1>>, <<Sq.E1, Sq.H1>>, <<Sq.H1, Sq.G1>>, <<Sq.E1, Sq.E2>>,
     <<Sq.E1, Sq.F1>>, <<Sq.G8, Sq.F6>>, <<Sq.H8, Sq.G8>>, <<Sq.E8, Sq.F7>>, <<Sq.A7, Sq.A6>>,
     <<Sq.F6, Sq.G8>>}

SpecCastle == InitGen /\ [][\E m \in CastleMoves : ApplyGenerated(m[1], m[2])]_vars


(***************************************************************************)
(* position.rs: a Position given as data (Deserialize), driven as a bare   *)
(* MoveState and handed to the result functions of play.rs                 *)
(***************************************************************************)
\* impl From<&Masks> for Squares: per colour (White, then Black) the kinds
\* in the order king, queen, rook, bishop, knight, pawn are written into the
\* array, a later write replacing an earlier one
SquaresFromMasks(masks) ==
    LET kinds == <<masks.kings, masks.queens, masks.rooks, masks.bishops, masks.knights, masks.pawns>>
        order == <<"King", "Queen", "Rook", "Bishop", "Knight", "Pawn">>
        color(i) == IF i <= 6 THEN "White" ELSE "Black"
        kind(i) == ((i - 1) % 6) + 1
        last(hits) == IF hits = {} THEN None
                      ELSE Some(Material(color(MaxOf(hits)), order[kind(MaxOf(hits))]))
    IN [s \in Squares |-> last({i \in 1..12 : s \in masks.pieces[color(i)] \cap kinds[kind(i)]})]
       @@ <<>>

\* impl Deserialize for Position: the six elements of the tuple, the squares
\* derived from the masks and the back rank looked up by its id
Deserialize(masks, id, castling, en_passant, next_move_id, moves_since_progress) ==
    [squares |-> SquaresFromMasks(masks),
     masks |-> masks,
     backrank |-> lookup(id),
     castling |-> castling,
     en_passant |-> en_passant,
     next_move_id |-> next_move_id,
     moves_since_progress |-> moves_since_progress]

\* Bounds of the positions given as data: the count a position's key may
\* already have in the repetitions map, the non-king pieces of a side
MaxPriorCount == 2

MaxSidePieces == 2

\* positions given piece by piece: a stalemate and a mate with Black to
\* move, a position with a pawn, one with a lone knight, one in which
\* Black has just played d7-d5 next to the pawn on e5, one in which
\* the rook on e8 and the knight on f3 both give check to the king on e1,
\* one with a bishop on the file of the king behind a pawn, and one with
\* kings and rooks on their standard squares and every castling right
Scenarios ==
    {[placed |-> {<<Sq.A8, "Black", "King">>, <<Sq.B6, "White", "King">>, <<Sq.C7, "White", "Bishop">>},
      en_passant |-> None, to_move |-> "Black", rights |-> FALSE],
     [placed |-> {<<Sq.A8, "Black", "King">>, <<Sq.B6, "White", "King">>, <<Sq.H8, "White", "Rook">>},
      en_passant |-> None, to_move |-> "Black", rights |-> FALSE],
     [placed |-> {<<Sq.E1, "White", "King">>, <<Sq.E8, "Black", "King">>, <<Sq.E2, "White", "Pawn">>},
      en_passant |-> None, to_move |-> "White", rights |-> FALSE],
     [placed |-> {<<Sq.E1, "White", "King">>, <<Sq.E8, "Black", "King">>, <<Sq.B1, "White", "Knight">>},
      en_passant |-> None, to_move |-> "White", rights |-> FALSE],
     [placed |-> {<<Sq.A5, "White", "King">>, <<Sq.E8, "Black", "King">>, <<Sq.E5, "White", "Pawn">>,
                  <<Sq.D5, "Black", "Pawn">>, <<Sq.H5, "Black", "Rook">>},
      en_passant |-> Some(Sq.D6), to_move |-> "White", rights |-> FALSE],
     [placed |-> {<<Sq.E1, "White", "King">>, <<Sq.D1, "White", "Queen">>, <<Sq.G1, "White", "Knight">>,
                  <<Sq.G2, "White", "Pawn">>, <<Sq.H1, "White", "Rook">>, <<Sq.C8, "White", "Bishop">>,
                  <<Sq.E8, "Black", "Rook">>, <<Sq.F3, "Black", "Knight">>, <<Sq.A8, "Black", "King">>},
      en_passant |-> None, to_move |-> "White", rights |-> FALSE],
     [placed |-> {<<Sq.E1, "White", "King">>, <<Sq.E2, "White", "Pawn">>, <<Sq.E5, "Black", "Bishop">>,
                  <<Sq.A8, "Black", "King">>},
      en_passant |-> None, to_move |-> "White", rights |-> FALSE],
     [placed |-> {<<Sq.E1, "White", "King">>, <<Sq.A1, "White", "Rook">>, <<Sq.H1, "White", "Rook">>,
                  <<Sq.E8, "Black", "King">>, <<Sq.A8, "Black", "Rook">>, <<Sq.H8, "Black", "Rook">>},
      en_passant |-> None, to_move |-> "White", rights |-> TRUE]}

\* the distributions of non-king material: kings on e1 and e8 and up to
\* MaxSidePieces pieces a side, of any kinds, on the b, c, d and f files of
\* the side's pawn rank
MaterialPositions ==
    LET kinds == <<"Queen", "Rook", "Bishop", "Knight", "Pawn">>
        slots == [White |-> <<Sq.B2, Sq.C2, Sq.D2, Sq.F2>>, Black |-> <<Sq.B7, Sq.C7, Sq.D7, Sq.F7>>]
        choices == {s \in UNION {[1..n -> 1..Len(kinds)] : n \in 0..MaxSidePieces} :
                        \A i \in 1..(Len(s) - 1) : s[i] <= s[i + 1]}
        put(color, s) == {<<slots[color][i], color, kinds[s[i]]>> : i \in 1..Len(s)}
    IN {[placed |-> {<<Sq.E1, "White", "King">>, <<Sq.E8, "Black", "King">>}
                        \cup put("White", c[1]) \cup put("Black", c[2]),
         en_passant |-> None, to_move |-> c[3], rights |-> FALSE] : c \in choices \X choices \X Colors}

\* MoveState::new on a Position deserialized from the Masks of the placed
\* pieces, with the repetitions map an
\* engine would hold before its update_result: the scenarios at halfmove
\* clocks 0, 99 and 100 with their key counted up to MaxPriorCount times
\* before, the material distributions at clock 1 with an empty map
InitPos ==
    \E s \in Scenarios \cup MaterialPositions, clock \in {0, 1, 99, 100}, prior \in 0..MaxPriorCount :
        LET on(color) == {p[1] : p \in {q \in s.placed : q[2] = color}}
            of(piece) == {p[1] : p \in {q \in s.placed : q[3] = piece}}
            masks == [pieces |-> [White |-> on("White"), Black |-> on("Black")],
                      kings |-> of("King"), queens |-> of("Queen"), rooks |-> of("Rook"),
                      bishops |-> of("Bishop"), knights |-> of("Knight"), pawns |-> of("Pawn")]
            pos == Deserialize(masks, 0,
                               [White |-> [color |-> "White", oo |-> s.rights, ooo |-> s.rights],
                                Black |-> [color |-> "Black", oo |-> s.rights, ooo |-> s.rights]],
                               s.en_passant, IF s.to_move = "White" THEN 60 ELSE 61, clock)
        IN /\ IF s \in Scenarios THEN clock # 1 /\ (s.en_passant # None => clock = 0)
              ELSE clock = 1 /\ prior = 0
           /\ board = "Position"
           /\ move_state = MoveStateNew(pos)
           /\ history = <<>>
           /\ repetitions = IF prior = 0 THEN NoRepetitions ELSE [k \in {key(pos)} |-> prior]
           /\ board_result = None
           /\ side = "Both"
           /\ preview = None
           /\ review = None
           /\ pre_moves = <<>>
           /\ outcome = "None"
           /\ script = [fools |-> -1, shuffle |-> -1]

\* PlayState<EngineMode>::update_result on the given state: the repetitions
\* map is updated and the result is decided
UpdateResult ==
    /\ board = "Position"
    /\ outcome = "None"
    /\ LET reps == update_repetitions(repetitions, move_state.position)
       IN /\ repetitions' = reps
          /\ board_result' = update_result(move_state, reps)
    /\ outcome' = "Ok"
    /\ UNCHANGED <<board, move_state, history, side, preview, review, pre_moves, script>>

SpecPos == InitPos /\ [][UpdateResult]_vars

(***************************************************************************)
(* Castling from the start position of every back rank                     *)
(***************************************************************************)
\* MoveState::new on a Position deserialized for every BackRankId and either
\* side to move: the start position of the back rank with all of its pieces
\* and, for the first id of each placement of king and rooks, the same with
\* kings, rooks and queens only or with kings and rooks only; in the last
\* case a rook of the other side may stand in place of one of the mover's
\* pawns, or one of the castling rights may be gone, or the other side may
\* just have advanced its a-pawn by two squares
InitRank ==
    \E id \in 0..(Len(BACKRANKS) - 1), to_move \in Colors :
    \E v \in {[keep |-> Pieces, file |-> -1, oo |-> TRUE, ooo |-> TRUE, ep |-> FALSE]}
             \cup IF \E j \in 0..(id - 1) : /\ lookup(j).king = lookup(id).king
                                             /\ lookup(j).rooks = lookup(id).rooks
                  THEN {}
                  ELSE {[keep |-> {"King", "Rook", "Queen"}, file |-> -1, oo |-> TRUE, ooo |-> TRUE, ep |-> FALSE],
                        [keep |-> {"King", "Rook"}, file |-> -1, oo |-> TRUE, ooo |-> FALSE, ep |-> FALSE],
                        [keep |-> {"King", "Rook"}, file |-> -1, oo |-> FALSE, ooo |-> TRUE, ep |-> FALSE],
                        [keep |-> {"King", "Rook"}, file |-> -1, oo |-> TRUE, ooo |-> TRUE, ep |-> TRUE]}
                       \cup {[keep |-> {"King", "Rook"}, file |-> f, oo |-> TRUE, ooo |-> TRUE, ep |-> FALSE] :
                                f \in Files \cup {-1}} :
        LET start == PositionNew(lookup(id)).masks
            kept == {s \in Squares : RankOf(s) \in {Rank2, Rank7}
                                     \/ InitPiece(lookup(id), FileOf(s)) \in v.keep}
            rook == IF v.file = -1 THEN {}
                    ELSE {SquareNew(v.file, IF to_move = "White" THEN Rank2 ELSE Rank7)}
            pawn(rank) == IF v.ep THEN {SquareNew(FileA, rank)} ELSE {}
            home == pawn(IF to_move = "White" THEN Rank7 ELSE Rank2)
            advanced == pawn(IF to_move = "White" THEN Rank5 ELSE Rank4)
            on(c) == IF c = to_move THEN (start.pieces[c] \cap kept) \ rook
                     ELSE (((start.pieces[c] \cap kept) \cup rook) \ home) \cup advanced
            masks == [pieces |-> [White |-> on("White"), Black |-> on("Black")],
                      kings |-> start.kings \cap kept, queens |-> start.queens \cap kept,
                      rooks |-> (start.rooks \cap kept) \cup rook,
                      bishops |-> start.bishops \cap kept, knights |-> start.knights \cap kept,
                      pawns |-> ((start.pawns \ rook) \ home) \cup advanced]
            pos == Deserialize(masks, id,
                               [White |-> [color |-> "White", oo |-> v.oo, ooo |-> v.ooo],
                                Black |-> [color |-> "Black", oo |-> v.oo, ooo |-> v.ooo]],
                               IF v.ep THEN Some(SquareNew(FileA, IF to_move = "White" THEN Rank6 ELSE Rank3))
                               ELSE None,
                               IF to_move = "White" THEN 0 ELSE 1, 0)
        IN /\ board = "MoveState"
           /\ move_state = MoveStateNew(pos)
           /\ history = <<>>
           /\ repetitions = NoRepetitions
           /\ board_result = None
           /\ side = "Both"
           /\ preview = None
           /\ review = None
           /\ pre_moves = <<>>
           /\ outcome = "None"
           /\ script = [fools |-> -1, shuffle |-> -1]

\* MoveState::apply_move with a castle move recorded by legal_moves for the
\* king of the side to move
NextRank ==
    \E to \in Squares :
        /\ board = "MoveState"
        /\ contains(all_castle_moves(move_state), to)
        /\ ApplyGenerated(king_src(move_state.position, turn(move_state.position)), to)

SpecRank == InitRank /\ [][NextRank]_vars

(***************************************************************************)
(* moves.rs: a bare MoveState driven with generated moves and pre-moves    *)
(***************************************************************************)
\* MoveState::apply_pre_move(pre_moves(from).get(to).unwrap()), tried with
\* the knight g8-f6 and the queen d8-h4: Position::apply_pre_move on the
\* position, and nothing else
ApplyPreMove(from, to) ==
    /\ board = "MoveState"
    /\ outcome # "Panic"
    /\ <<from, to>> \in {<<Sq.G8, Sq.F6>>, <<Sq.D8, Sq.H4>>}
    /\ contains(pre_moves_from(move_state.position, from), to)
    /\ LET mv == Unwrap(get(pre_moves_from(move_state.position, from), to))
       IN IF ApplyPreMovePanics(move_state.position, mv)
          THEN outcome' = "Panic" /\ UNCHANGED move_state
          ELSE /\ outcome' = "Ok"
               /\ move_state' = [move_state EXCEPT
                                    !.position = PositionApplyPreMove(move_state.position, mv)]
    /\ UNCHANGED <<board, history, repetitions, board_result, side, preview, review,
                   pre_moves, script>>

SpecPre ==
    InitGen /\ [][\/ \E m \in CastleMoves : ApplyGenerated(m[1], m[2])
                  \/ \E from \in Squares, to \in Squares : ApplyPreMove(from, to)]_vars

(***************************************************************************)
(* mod.rs: PlayerBoard::replay and EngineBoard::replay                     *)
(***************************************************************************)
\* the longest list of Moves handed to replay
MaxReplay == 3

\* EngineBoard::replay: plays_both(id), then submit_move for each Move
\* until one fails
EngineReplay(id, moves) ==
    LET RECURSIVE run(_, _)
        run(es, rest) ==
            IF rest = <<>> \/ es.outcome \in {"InvalidMove", "Panic"} THEN es
            ELSE run(submit_move(es, Head(rest)), Tail(rest))
    IN run([move_state |-> MoveStateNew(PositionNew(lookup(id))), history |-> <<>>,
            repetitions |-> NoRepetitions, board_result |-> None, outcome |-> "None"], moves)

\* the arguments of a PlayerBoard::replay call, held in `script`, and the
\* board it starts with: no id, the standard id or id 1 (whose kings castle
\* from g1 and g8), the colour of the player, and up to MaxReplay Moves out
\* of pawn moves sent with a promotion piece, the king-to-rook castling
\* requests, and a knight move
InitReplay ==
    \E index \in {None, Some(STANDARD), Some(1)}, color \in Colors, n \in 0..MaxReplay :
        \E moves \in [1..n -> {Move(Sq.E2, Sq.E4, Some("Queen")), Move(Sq.E7, Sq.E5, Some("Queen")),
                              Move(Sq.G1, Sq.H1, None), Move(Sq.G8, Sq.H8, None),
                              Move(Sq.G1, Sq.F3, None)}] :
            /\ board = "Replay"
            /\ move_state = MoveStateNew(PositionNew(lookup(IF index = None THEN STANDARD ELSE Unwrap(index))))
            /\ history = <<>>
            /\ repetitions = NoRepetitions
            /\ board_result = None
            /\ side = color
            /\ preview = None
            /\ review = ReviewNew(IF index = None THEN STANDARD ELSE Unwrap(index))
            /\ pre_moves = <<>>
            /\ outcome = "None"
            /\ script = [id |-> IF index = None THEN STANDARD ELSE Unwrap(index), moves |-> moves, next |-> 0]

\* the loop of replay with the Moves of even index always taken as ours
ReplayStepEvenIsOurs ==
    /\ board = "Replay"
    /\ outcome \notin {"InvalidMove", "Panic"}
    /\ script.next < Len(script.moves)
    /\ IF script.next % 2 = 0
       THEN SetPlayerState(submit_our_move(PlayerState, script.moves[script.next + 1]))
       ELSE SetPlayerState(submit_their_move(PlayerState, script.moves[script.next + 1]))
    /\ script' = [script EXCEPT !.next = @ + 1]
    /\ UNCHANGED <<board, repetitions, board_result, side>>

\* one round of the loop of PlayerBoard::replay: the Moves with an even
\* index are White's, the others Black's; the loop ends with the list or
\* at the first Move that fails
ReplayStep ==
    /\ board = "Replay"
    /\ outcome \notin {"InvalidMove", "Panic"}
    /\ script.next < Len(script.moves)
    /\ IF (script.next % 2 = 0) = (side = "White")
       THEN SetPlayerState(submit_our_move(PlayerState, script.moves[script.next + 1]))
       ELSE SetPlayerState(submit_their_move(PlayerState, script.moves[script.next + 1]))
    /\ script' = [script EXCEPT !.next = @ + 1]
    /\ UNCHANGED <<board, repetitions, board_result, side>>

SpecReplay == InitReplay /\ [][ReplayStep]_vars

(***************************************************************************)
(* Chess rules the claims are stated with, independent of the cache        *)
(***************************************************************************)
\* a piece standing on `from` attacks `target` by the rules of chess: the
\* target is in its attack pattern and, for a queen, rook or bishop, no
\* piece stands between the two squares
RuleAttacks(pos, from, target) ==
    LET material == Unwrap(pos.squares[from])
        clear == between(from, target) \cap {s \in Squares : IsSome(pos.squares[s])} = {}
    IN CASE material.piece = "King" -> target \in KING_MOVES[from]
         [] material.piece = "Knight" -> target \in KNIGHT_MOVES[from]
         [] material.piece = "Pawn" ->
               target \in (IF material.color = "White" THEN WHITE_PAWN_ATTACKS[from]
                           ELSE BLACK_PAWN_ATTACKS[from])
         [] material.piece = "Rook" -> target \in ROOK_MOVES[from] /\ clear
         [] material.piece = "Bishop" -> target \in BISHOP_MOVES[from] /\ clear
         [] material.piece = "Queen" -> target \in QUEEN_MOVES[from] /\ clear

\* the squares holding a material
SquaresOf(pos, color, piece) == {s \in Squares : pos.squares[s] = Some(Material(color, piece))}

\* the squares holding any piece of a colour
SquaresOfColor(pos, color) ==
    {s \in Squares : IsSome(pos.squares[s]) /\ Unwrap(pos.squares[s]).color = color}

\* a king of the colour is attacked by a piece of the other colour
KingAttacked(pos, color) ==
    \E king \in SquaresOf(pos, color, "King") :
        \E from \in SquaresOfColor(pos, Opp(color)) : RuleAttacks(pos, from, king)

\* the moves the generator records for the side to move, as <<from, to>> pairs
GeneratedMoves(ms) ==
    {m \in Squares \X Squares : contains(legal_moves(ms, m[1]), m[2])}

\* the position after the move the generator records for <<from, to>>
AfterGenerated(ms, m) == PositionApplyMove(ms.position, legal_moves(ms, m[1])[m[2]])

(***************************************************************************)
(* Claims                                                                  *)
(***************************************************************************)
\* C1: in every position reached by applying generated moves, every move
\* the generator records leaves the king of the side that moved unattacked
\* (king steps, moves of pinned pieces, moves made while in check).
C1_GeneratedMovesLeaveKingSafe ==
    (board = "MoveState" /\ outcome # "Panic") =>
        \A m \in GeneratedMoves(move_state) :
            ~KingAttacked(AfterGenerated(move_state, m), turn(move_state.position))


\* the generated moves that leave the own king unattacked
SafeMoves(ms) ==
    {m \in GeneratedMoves(ms) : ~KingAttacked(AfterGenerated(ms, m), turn(ms.position))}

\* the result the engine computes for a move state whose position it meets
\* for the first time since the last progress
FirstResult(ms) == update_result(ms, update_repetitions(NoRepetitions, ms.position))

\* C2: after a move, when the side to move is in check and has no move that
\* leaves its king unattacked, the engine's result is CheckMate of the
\* colour that just moved; the position after 1. f3 e5 2. g4 Qh4 is such a
\* position with White to move.
C2_MatedSideIsCheckMate ==
    (/\ board = "MoveState"
     /\ outcome = "Ok"
     /\ KingAttacked(move_state.position, turn(move_state.position))
     /\ SafeMoves(move_state) = {})
        => FirstResult(move_state) = Some(CheckMate(Opp(turn(move_state.position))))

\* C3: in every live position of an engine or player board each colour has
\* exactly one king.
C3_OneKingPerColour ==
    board \in {"Engine", "Player"} =>
        \A c \in Colors : Cardinality(SquaresOf(move_state.position, c, "King")) = 1

\* an accepted castle has been applied to a board: king and rook were taken
\* off their squares and placed again
C3_Witness ==
    /\ board \in {"Engine", "Player"}
    /\ \E i \in 1..Len(history) : history[i].tag = "ShortCastle"
    /\ \A c \in Colors : Cardinality(SquaresOf(move_state.position, c, "King")) = 1

\* C4: for a Move without promotion validate_move returns Ok with the move
\* the generator recorded for its destination when the destination is
\* generated, and InvalidMove otherwise.
C4_ValidateReturnsRecordedMove ==
    (board = "MoveState" /\ outcome # "Panic") =>
        \A from \in Squares, to \in Squares :
            validate_move(move_state, Move(from, to, None)) =
                IF contains(legal_moves(move_state, from), to)
                THEN Ok(legal_moves(move_state, from)[to])
                ELSE InvalidMove

\* the rank a pawn of a colour promotes on: the back rank of the opponent
PromotionRank(color) == IF color = "White" THEN Rank8 ELSE Rank1

\* C5: with a promotion piece p, validate_move returns Promoting(from, to, p)
\* exactly when `to` is generated for `from`, `from` holds a pawn and `to`
\* is on the opponent's back rank; otherwise it returns InvalidMove.
C5_PromotionOnlyOntoBackRank ==
    (board = "MoveState" /\ outcome # "Panic") =>
        \A from \in Squares, to \in Squares, p \in Promotions :
            validate_move(move_state, Move(from, to, Some(p))) =
                IF /\ contains(legal_moves(move_state, from), to)
                   /\ Unwrap(move_state.position.squares[from]).piece = "Pawn"
                   /\ RankOf(to) = PromotionRank(Unwrap(move_state.position.squares[from]).color)
                THEN Ok(Promoting(from, to, p))
                ELSE InvalidMove

\* C6: a pawn move onto the opponent's back rank without a promotion piece
\* is answered with InvalidMove, and no pawn stands on rank 1 or rank 8.
C6_NoPawnReachesBackRank ==
    (board = "MoveState" /\ outcome # "Panic") =>
        /\ \A from \in SquaresOf(move_state.position, turn(move_state.position), "Pawn") :
             \A to \in {s \in Squares : RankOf(s) = PromotionRank(turn(move_state.position))} :
                validate_move(move_state, Move(from, to, None)) = InvalidMove
        /\ \A s \in Squares, c \in Colors :
             RankOf(s) \in {Rank1, Rank8} => move_state.position.squares[s] # Some(Material(c, "Pawn"))

\* C7: every call of submit_move and submit_our_move ends with Ok or with
\* the InvalidMove error, never with a panic.
C7_SubmitNeverPanics == outcome \in {"None", "Ok", "InvalidMove"}

\* the moves the generator records for the knight shuffle
ShuffleMoves ==
    <<Standard(Sq.G1, Sq.F3), Standard(Sq.G8, Sq.F6), Standard(Sq.F3, Sq.G1), Standard(Sq.F6, Sq.G8),
      Standard(Sq.G1, Sq.F3), Standard(Sq.G8, Sq.F6), Standard(Sq.F3, Sq.G1), Standard(Sq.F6, Sq.G8)>>

\* the move states a game goes through, move by move
RECURSIVE GameStates(_, _)
GameStates(ms, moves) ==
    IF moves = <<>> THEN <<>>
    ELSE <<MoveStateApplyMove(ms, Head(moves))>>
         \o GameStates(MoveStateApplyMove(ms, Head(moves)), Tail(moves))

\* the repetitions map of the engine after it went through the states of a game
RECURSIVE GameRepetitions(_, _)
GameRepetitions(reps, states) ==
    IF states = <<>> THEN reps
    ELSE GameRepetitions(update_repetitions(reps, Head(states).position), Tail(states))

ShuffleRepetitions ==
    GameRepetitions(NoRepetitions, GameStates(MoveStateNew(PositionNew(lookup(0))), ShuffleMoves))

\* C8: the result is Repetition as soon as the position after a move has
\* occurred three times, the starting position included: after the eighth
\* move of the knight shuffle from the standard start the engine's result
\* is Repetition.
C8_ShuffleEndsInRepetition ==
    (/\ board = "MoveState"
     /\ outcome = "Ok"
     /\ move_state.position.next_move_id = Len(ShuffleMoves)
     /\ move_state.position.squares = PositionNew(lookup(0)).squares)
        => update_result(move_state, ShuffleRepetitions) = Some(Repetition)

CountOf(reps, pos) == IF key(pos) \in DOMAIN reps THEN reps[key(pos)] ELSE 0

\* the result the priority order of the claim gives for a move state whose
\* position has been counted in reps; a legal move is a move that
\* legal_moves records (C1 and C2 are about its difference from a move of
\* chess), being in check is the king being attacked by the rules of chess
ResultByPriority(ms, reps) ==
    IF GeneratedMoves(ms) = {}
    THEN IF KingAttacked(ms.position, turn(ms.position))
         THEN Some(CheckMate(Opp(turn(ms.position))))
         ELSE Some(StaleMate)
    ELSE IF CountOf(reps, ms.position) >= 3 THEN Some(Repetition)
    ELSE IF ms.position.moves_since_progress = 100 THEN Some(FiftyMoves)
    ELSE IF is_insufficient(ms.position) THEN Some(Insufficient)
    ELSE None

MaterialClass(pos, color) ==
    LET count(piece) == Cardinality(SquaresOf(pos, color, piece))
        knights == count("Knight")
        bishops == count("Bishop")
    IN IF count("Pawn") + count("Rook") + count("Queen") > 0 THEN "Sufficient"
       ELSE IF knights = 0 /\ bishops = 0 THEN "LoneKing"
       ELSE IF knights = 1 /\ bishops = 0 THEN "OneKnight"
       ELSE IF knights = 0 /\ bishops = 1 THEN "OneBishop"
       ELSE IF knights = 2 /\ bishops = 0 THEN "TwoKnights"
       ELSE "Sufficient"

\* the classes of both sides of a position
MaterialClasses(pos) == {MaterialClass(pos, "White"), MaterialClass(pos, "Black")}

\* a result of higher priority than Insufficient has been decided
HigherResult ==
    board_result \in {Some(CheckMate("White")), Some(CheckMate("Black")), Some(StaleMate),
                      Some(Repetition), Some(FiftyMoves)}

\* C12 as stated: is_insufficient holds (and Insufficient is the result
\* when no result of higher priority applies) if and only if neither side's
\* material is Sufficient and neither side has TwoKnights.
C12_InsufficientIffNoTwoKnights ==
    board = "Position" =>
        LET rule == "Sufficient" \notin MaterialClasses(move_state.position)
                    /\ "TwoKnights" \notin MaterialClasses(move_state.position)
        IN /\ is_insufficient(move_state.position) <=> rule
           /\ (outcome = "Ok" /\ ~HigherResult) => (board_result = Some(Insufficient) <=> rule)

\* C12 amended: is_insufficient holds (and Insufficient is the result when
\* no result of higher priority applies) if and only if neither side's
\* material is Sufficient and either a side is a lone king or neither side
\* has TwoKnights; two knights against a lone king are insufficient.
C12_InsufficientUnlessTwoKnightsOpposed ==
    board = "Position" =>
        LET rule == /\ "Sufficient" \notin MaterialClasses(move_state.position)
                    /\ \/ "LoneKing" \in MaterialClasses(move_state.position)
                       \/ "TwoKnights" \notin MaterialClasses(move_state.position)
        IN /\ is_insufficient(move_state.position) <=> rule
           /\ (outcome = "Ok" /\ ~HigherResult) => (board_result = Some(Insufficient) <=> rule)

\* two knights against a lone king have been decided Insufficient
C12_Witness ==
    /\ board = "Position"
    /\ outcome = "Ok"
    /\ MaterialClasses(move_state.position) = {"TwoKnights", "LoneKing"}
    /\ is_insufficient(move_state.position)
    /\ board_result = Some(Insufficient)


RECURSIVE RequeuedPrefix(_, _)
RequeuedPrefix(pos, queue) ==
    IF queue = <<>> \/ validate_pre_move(pos, Head(queue)).kind # "Ok" THEN <<>>
    ELSE <<Head(queue)>> \o RequeuedPrefix(pos, Tail(queue))

\* the position that shows the queued pre-moves applied, in their order
RECURSIVE PreviewAfter(_, _)
PreviewAfter(pos, queue) ==
    IF queue = <<>> THEN pos
    ELSE PreviewAfter(PositionApplyPreMove(pos, Unwrap(validate_pre_move(pos, Head(queue)).mv)),
                      Tail(queue))

\* what a successful submit_their_move(mv) leaves, by the claim: with no
\* queue, or a first queued move that is not legal after their move, only
\* their move is applied, the queue is empty, there is no preview and it is
\* our turn; otherwise the first queued move is applied as a live move too
\* and the following ones that validate are queued again, in order
TheirMoveEffect(mv) ==
    LET their_move == Unwrap(validate_move(move_state, mv).mv)
        live == MoveStateApplyMove(move_state, their_move)
        first == validate_move(live, Head(pre_moves))
        our_first == MoveStateApplyMove(live, Unwrap(first.mv))
        kept == RequeuedPrefix(our_first.position, Tail(pre_moves))
    IN /\ outcome' = "Ok"
       /\ IF pre_moves = <<>> \/ first.kind # "Ok"
          THEN /\ move_state' = live
               /\ history' = Append(history, their_move)
               /\ pre_moves' = <<>>
               /\ preview' = None
               /\ turn(live.position) = side
          ELSE /\ move_state' = our_first
               /\ history' = history \o <<their_move, Unwrap(first.mv)>>
               /\ pre_moves' = kept
               /\ preview' = IF kept = <<>> THEN None ELSE Some(PreviewAfter(our_first.position, kept))

C15_PreMoveKeepsLiveState ==
    [][\A mv \in Inputs :
          (board = "Player" /\ ~our_turn(PlayerState) /\ SubmitOurMove(mv)) =>
              /\ move_state' = move_state
              /\ history' = history
              /\ review' = review
              /\ <<board, side, repetitions, board_result>>' = <<board, side, repetitions, board_result>>
              /\ outcome' = "Ok" => (pre_moves' = Append(pre_moves, mv) /\ preview' # None)]_vars

\* pre-moves are queued and shown in a preview that differs from the live
\* position, which is still the last position of the review history
C15_Witness ==
    /\ board = "Player"
    /\ outcome = "Ok"
    /\ ~our_turn(PlayerState)
    /\ Len(pre_moves) = MaxPreMoves
    /\ preview # None
    /\ preview # Some(move_state.position)
    /\ review.history[Len(review.history)] = move_state
    /\ Len(review.history) = Len(history) + 1


\* the position the review cursor is on
ReviewCurrent == review.history[review.offset + 1].position

\* C16 as stated: view() is the preview whenever a preview exists, wherever
\* the review cursor is, and the current review position otherwise.
C16_ViewPrefersPreview ==
    (board = "Player" /\ outcome # "Panic") =>
        view(PlayerState) = IF preview # None THEN Unwrap(preview) ELSE ReviewCurrent

\* C16 amended: view() is the current review position whenever the review
\* cursor is not at the end of the review history; with the cursor at the
\* end it is the preview when a preview exists and the current review
\* position, which is the live position, otherwise.
C16_ViewPrefersReviewCursor ==
    (board = "Player" /\ outcome # "Panic") =>
        view(PlayerState) = IF review.offset # Len(review.history) - 1 THEN ReviewCurrent
                            ELSE IF preview # None THEN Unwrap(preview)
                            ELSE ReviewCurrent

\* a pre-move is queued and previewed while the cursor is on an earlier
\* position: the view is that position and not the preview
C16_Witness ==
    /\ board = "Player"
    /\ outcome # "Panic"
    /\ pre_moves # <<>>
    /\ preview # None
    /\ review.offset < Len(review.history) - 1
    /\ view(PlayerState) = ReviewCurrent
    /\ view(PlayerState) # Unwrap(preview)


\* C17: cancel_pre_moves empties the queue and removes the preview and
\* leaves the live move state, the move history, the review history and the
\* review offset as they are; a submit_their_move made with an empty queue
\* applies their move only and leaves the queue empty and no preview.
C17_CancelDropsQueueOnly ==
    [][/\ CancelPreMoves =>
            /\ pre_moves' = <<>>
            /\ preview' = None
            /\ move_state' = move_state
            /\ history' = history
            /\ review' = review
       /\ \A mv \in Inputs :
            (board = "Player" /\ pre_moves = <<>> /\ preview = None /\ SubmitTheirMove(mv)) =>
                /\ pre_moves' = <<>>
                /\ preview' = None
                /\ outcome' = "Ok" =>
                      /\ history' = Append(history, Unwrap(validate_move(move_state, mv).mv))
                      /\ turn(move_state'.position) = side]_vars

\* the queue of a board that plays Black has been cancelled before the
\* first move: no move was made, the last call that returned a value was an
\* accepted pre-move, and neither the queue nor the preview is left
C17_Witness ==
    /\ board = "Player"
    /\ side = "Black"
    /\ history = <<>>
    /\ outcome = "Ok"
    /\ pre_moves = <<>>
    /\ preview = None


\* the squares after the en passant capture from `from` onto `to` by the
\* rules of chess: the capturing pawn stands on `to`, its square and the
\* square of the captured pawn, beside it on the file of `to`, are empty
SquaresAfterEnPassant(pos, from, to) ==
    [s \in Squares |->
        IF s = to THEN pos.squares[from]
        ELSE IF s = from \/ s = SquareNew(FileOf(to), RankOf(from)) THEN None
        ELSE pos.squares[s]]

\* with the squares replaced, the king of the colour is attacked by a rook
\* or queen of the other colour standing on the given rank
AttackedAlongRank(pos, squares, color, rank) ==
    \E king \in SquaresOf([pos EXCEPT !.squares = squares], color, "King") :
        /\ RankOf(king) = rank
        /\ \E from \in SquaresOfColor([pos EXCEPT !.squares = squares], Opp(color)) :
              /\ RankOf(from) = rank
              /\ RuleAttacks([pos EXCEPT !.squares = squares], from, king)

\* C18: legal_moves records no EnPassant move after which, both pawns gone
\* from their rank and the capturing pawn on the target, the mover's king
\* is attacked along the rank the capture started from.
C18_NoEnPassantIntoRankCheck ==
    board = "Position" =>
        \A m \in GeneratedMoves(move_state) :
            legal_moves(move_state, m[1])[m[2]].tag = "EnPassant" =>
                ~AttackedAlongRank(move_state.position,
                                   SquaresAfterEnPassant(move_state.position, m[1], m[2]),
                                   turn(move_state.position), RankOf(m[1]))


\* the en passant square the claim expects after a recorded move of the
\* side to move: the square on the mover's file and on rank 3 (White) or
\* rank 6 (Black) after a DoubleAdvance, none after any other variant
EnPassantAfter(pos, mv) ==
    IF mv.tag = "DoubleAdvance"
    THEN Some(SquareNew(FileOf(mv.from), IF turn(pos) = "White" THEN Rank3 ELSE Rank6))
    ELSE None

RightsAfterMove(pos, after, mv, color) ==
    LET changed(square) == after.squares[square] # pos.squares[square]
        home(square, piece) == after.squares[square] = Some(Material(color, piece))
    IN /\ after.castling[color].oo => pos.castling[color].oo
       /\ after.castling[color].ooo => pos.castling[color].ooo
       /\ changed(king_src(pos, color)) => ~after.castling[color].oo /\ ~after.castling[color].ooo
       /\ changed(oo_rook_src(pos, color)) => ~after.castling[color].oo
       /\ changed(ooo_rook_src(pos, color)) => ~after.castling[color].ooo
       /\ (color = turn(pos) /\ mv.tag \in {"ShortCastle", "LongCastle"})
             => ~after.castling[color].oo /\ ~after.castling[color].ooo
       /\ after.castling[color].oo
             => home(king_src(pos, color), "King") /\ home(oo_rook_src(pos, color), "Rook")
       /\ after.castling[color].ooo
             => home(king_src(pos, color), "King") /\ home(ooo_rook_src(pos, color), "Rook")

RuleAttacked(pos, square, by) ==
    \E from \in SquaresOfColor(pos, by) : RuleAttacks(pos, from, square)

\* the conditions of a castle of the side to move: the right is set, the
\* king's source is not attacked, no piece stands between king and rook, and
\* no square the king crosses or reaches is attacked
CastleAllowed(pos, right, rook_src, king_dest) ==
    LET us == turn(pos)
        king == king_src(pos, us)
    IN /\ right
       /\ ~RuleAttacked(pos, king, Opp(us))
       /\ between(king, rook_src) \cap (SquaresOfColor(pos, "White") \cup SquaresOfColor(pos, "Black")) = {}
       /\ \A s \in between(king, king_dest) \cup {king_dest} : ~RuleAttacked(pos, s, Opp(us))

\* legal_moves(king_src) records the castle move for some destination
CastleOffered(ms, castle) ==
    \E d \in destinations(legal_moves(ms, king_src(ms.position, turn(ms.position)))) :
        legal_moves(ms, king_src(ms.position, turn(ms.position)))[d].tag = castle.tag

\* legal_moves(king_src) maps both squares to the castle move
CastleMapped(ms, castle, rook_src, king_dest) ==
    \A d \in {rook_src, king_dest} :
        /\ contains(legal_moves(ms, king_src(ms.position, turn(ms.position))), d)
        /\ legal_moves(ms, king_src(ms.position, turn(ms.position)))[d].tag = castle.tag

\* C21 (first half): the generator offers ShortCastle (LongCastle) for the
\* king's source square exactly when the oo (ooo) right is set, the king's
\* source is not attacked, no piece stands between king and rook, and no
\* square between the king's source and destination, nor the destination,
\* is attacked; attacks on squares only the rook crosses do not matter.
C21_CastleOfferedIffAllowed ==
    LET pos == move_state.position
        us == turn(pos)
    IN /\ CastleOffered(move_state, ShortCastle)
            <=> CastleAllowed(pos, pos.castling[us].oo, oo_rook_src(pos, us), oo_king_dest(pos, us))
       /\ CastleOffered(move_state, LongCastle)
            <=> CastleAllowed(pos, pos.castling[us].ooo, ooo_rook_src(pos, us), ooo_king_dest(pos, us))

\* C21: as above and, whenever a castle is offered, both the king's
\* destination and the rook's source are destinations mapped to that castle.
C21_CastleOfferedAndMapped ==
    LET pos == move_state.position
        us == turn(pos)
    IN /\ C21_CastleOfferedIffAllowed
       /\ CastleOffered(move_state, ShortCastle)
            => CastleMapped(move_state, ShortCastle, oo_rook_src(pos, us), oo_king_dest(pos, us))
       /\ CastleOffered(move_state, LongCastle)
            => CastleMapped(move_state, LongCastle, ooo_rook_src(pos, us), ooo_king_dest(pos, us))

\* ---- C22 ----
\* what a castle of the side to move leaves: the king on its destination
\* file and the rook on its destination file of the mover's back rank, the
\* two source squares empty unless they are one of these destinations,
\* neither right of the mover, and no en passant square
CastleEffect(pos, castle, rook_file, king_file, rook_dest_file) ==
    LET us == turn(pos)
        rank == IF us = "White" THEN Rank1 ELSE Rank8
        after == PositionApplyMove(pos, castle)
        dests == {SquareNew(king_file, rank), SquareNew(rook_dest_file, rank)}
    IN /\ after.squares[SquareNew(king_file, rank)] = Some(Material(us, "King"))
       /\ after.squares[SquareNew(rook_dest_file, rank)] = Some(Material(us, "Rook"))
       /\ \A s \in {SquareNew(pos.backrank.king, rank), SquareNew(rook_file, rank)} \ dests :
              after.squares[s] = None
       /\ ~after.castling[us].oo
       /\ ~after.castling[us].ooo
       /\ after.en_passant = None

\* C22: for every back rank and both colours, with king and rook at home,
\* applying ShortCastle leaves the mover's king on file g and the short-side
\* rook on file f of the mover's back rank, applying LongCastle leaves the
\* king on file c and the long-side rook on file d; the source squares are
\* empty afterwards unless they are one of these destinations, both rights
\* of the mover are cleared and so is the en passant square.
C22_CastleEffect ==
    LET pos == move_state.position
        us == turn(pos)
    IN /\ pos.castling[us].oo
            => CastleEffect(pos, ShortCastle, pos.backrank.rooks[2], FileG, FileF)
       /\ pos.castling[us].ooo
            => CastleEffect(pos, LongCastle, pos.backrank.rooks[1], FileC, FileD)

\* Black may castle short on the back rank with the king on b8 after White
\* castled long, which cleared the en passant square behind Black's a-pawn
C22_Witness ==
    LET pos == move_state.position
    IN /\ pos.backrank.king = FileB
       /\ pos.backrank.rooks = <<FileA, FileH>>
       /\ turn(pos) = "Black"
       /\ pos.squares[SquareNew(FileC, Rank1)] = Some(Material("White", "King"))
       /\ pos.squares[SquareNew(FileD, Rank1)] = Some(Material("White", "Rook"))
       /\ pos.squares[SquareNew(FileA, Rank5)] = Some(Material("Black", "Pawn"))
       /\ pos.en_passant = None
       /\ pos.castling["Black"].oo
       /\ CastleOffered(move_state, ShortCastle)

\* ---- C30 ----
\* a castle offered by the generator finds the destinations of king and rook
\* empty or held by the castling king or rook, and applying it keeps the
\* number of pieces of both colours
CastleKeepsPieces(ms, castle, rook_file, king_file, rook_dest_file) ==
    LET pos == ms.position
        us == turn(pos)
        rank == IF us = "White" THEN Rank1 ELSE Rank8
        after == PositionApplyMove(pos, castle)
    IN CastleOffered(ms, castle) =>
          /\ \A s \in {SquareNew(king_file, rank), SquareNew(rook_dest_file, rank)} :
                 \/ pos.squares[s] = None
                 \/ s \in {SquareNew(pos.backrank.king, rank), SquareNew(rook_file, rank)}
          /\ \A c \in Colors :
                 Cardinality(SquaresOfColor(after, c)) = Cardinality(SquaresOfColor(pos, c))

\* C30: on every back rank, whenever a castle move is generated the king's
\* and the rook's destination are empty or occupied only by the castling
\* king or rook, so that applying a generated castle removes no piece.
C30_GeneratedCastleRemovesNoPiece ==
    /\ CastleKeepsPieces(move_state, ShortCastle, move_state.position.backrank.rooks[2], FileG, FileF)
    /\ CastleKeepsPieces(move_state, LongCastle, move_state.position.backrank.rooks[1], FileC, FileD)

\* ---- C23 ----
\* the squares array and the masks of a position tell the same: a square
\* holds a material exactly when it is in the mask of the colour and in the
\* mask of the kind, the two colour masks are disjoint and so are the six
\* kind masks
Coherent(pos) ==
    LET kinds == [King |-> pos.masks.kings, Queen |-> pos.masks.queens, Rook |-> pos.masks.rooks,
                  Bishop |-> pos.masks.bishops, Knight |-> pos.masks.knights, Pawn |-> pos.masks.pawns]
    IN /\ \A s \in Squares, c \in Colors, k \in Pieces :
              pos.squares[s] = Some(Material(c, k)) <=> s \in pos.masks.pieces[c] \cap kinds[k]
       /\ pos.masks.pieces["White"] \cap pos.masks.pieces["Black"] = {}
       /\ \A k1, k2 \in Pieces : k1 # k2 => kinds[k1] \cap kinds[k2] = {}

\* C23: after any sequence of apply_move and apply_pre_move calls the squares
\* array and the bitboards of a position are coherent; this holds for the
\* live position, for the preview built from the queued pre-moves and for
\* every position of the review history.
C23_SquaresAndMasksCoherent ==
    /\ Coherent(move_state.position)
    /\ preview # None => Coherent(Unwrap(preview))
    /\ review # None => \A i \in 1..Len(review.history) : Coherent(review.history[i].position)

\* two moves have been applied to the live position and two pre-moves to
\* the preview
C23_Witness ==
    /\ move_state.position.next_move_id >= 2
    /\ Len(pre_moves) = 2
    /\ preview # None
    /\ Unwrap(preview) # move_state.position

\* ---- C24 ----
\* the valid arrangements, built from the files of the pieces: a king
\* between two rooks, two bishops on files of different colours, a queen,
\* and knights on the two files left
Arrangement(rook1, king, rook2, bishop1, bishop2, queen) ==
    [f \in 1..8 |-> CASE f - 1 = king -> "King"
                      [] f - 1 \in {rook1, rook2} -> "Rook"
                      [] f - 1 \in {bishop1, bishop2} -> "Bishop"
                      [] f - 1 = queen -> "Queen"
                      [] OTHER -> "Knight"]

ValidArrangements ==
    {Arrangement(t[1], t[2], t[3], t[4], t[5], t[6]) :
        t \in {u \in Files \X Files \X Files \X Files \X Files \X Files :
                  /\ u[1] < u[2] /\ u[2] < u[3]
                  /\ u[4] % 2 = 0 /\ u[5] % 2 = 1
                  /\ Cardinality({u[1], u[2], u[3], u[4], u[5], u[6]}) = 6}}

\* the arrangements of the registry
RegisteredArrangements == {lookup(n).pieces : n \in 0..(Len(BACKRANKS) - 1)}

\* C24: the registry is a bijection between the ids 0..959 and the valid
\* Chess960 arrangements: the back rank a position was built with has its
\* own id and no other id, it holds one king, one queen, two rooks, two
\* knights and two bishops on files of different colours with the king
\* between the rooks, and the registry holds 960 arrangements, which are
\* all the valid ones.
C24_RegistryBijection ==
    LET br == move_state.position.backrank
        count(piece) == Cardinality({f \in 1..8 : br.pieces[f] = piece})
    IN /\ ValidBackRankId(id_of(br))
       /\ lookup(id_of(br)) = br
       /\ \A n \in 0..(Len(BACKRANKS) - 1) : lookup(n).pieces = br.pieces => n = id_of(br)
       /\ count("King") = 1 /\ count("Queen") = 1 /\ count("Rook") = 2
       /\ count("Knight") = 2 /\ count("Bishop") = 2
       /\ \E b1, b2 \in Files : /\ br.pieces[b1 + 1] = "Bishop" /\ br.pieces[b2 + 1] = "Bishop"
                                /\ b1 % 2 = 0 /\ b2 % 2 = 1
       /\ \E r1, k, r2 \in Files : /\ r1 < k /\ k < r2
                                   /\ br.pieces[r1 + 1] = "Rook" /\ br.pieces[k + 1] = "King"
                                   /\ br.pieces[r2 + 1] = "Rook"
       /\ Len(BACKRANKS) = 960
       /\ RegisteredArrangements = ValidArrangements

\* a position built with the last id of the registry, Black to move
C24_Witness ==
    /\ id_of(move_state.position.backrank) = 959
    /\ move_state.position.backrank # lookup(0)
    /\ move_state.position.next_move_id > 0

\* ---- C25 ----
\* the file with `skip` smaller files before it in a set of files
NthFile(files, skip) == CHOOSE f \in files : Cardinality({g \in files : g < f}) = skip

\* the skip counts of the two knights, by the knights' number
KnightSkips ==
    <<<<0, 0>>, <<0, 1>>, <<0, 2>>, <<0, 3>>, <<1, 1>>, <<1, 2>>, <<1, 3>>, <<2, 2>>, <<2, 3>>, <<3, 3>>>>

\* the arrangement the canonical numbering gives to n: the light-square
\* bishop from n mod 4 on files b, d, f, h, the dark-square bishop from the
\* next mod 4 on files a, c, e, g, the queen on the (mod 6)-th empty file,
\* the knights from the table of ten pairs, and Rook, King, Rook on the rest
Canonical(n) ==
    LET light == 2 * (n % 4) + 1
        dark == 2 * ((n \div 4) % 4)
        queen == NthFile(Files \ {light, dark}, (n \div 16) % 6)
        skips == KnightSkips[((n \div 96) % 10) + 1]
        knight1 == NthFile(Files \ {light, dark, queen}, skips[1])
        knight2 == NthFile(Files \ {light, dark, queen, knight1}, skips[2])
        rest == Files \ {light, dark, queen, knight1, knight2}
    IN [f \in 1..8 |-> CASE f - 1 \in {light, dark} -> "Bishop"
                         [] f - 1 = queen -> "Queen"
                         [] f - 1 \in {knight1, knight2} -> "Knight"
                         [] f - 1 = NthFile(rest, 1) -> "King"
                         [] OTHER -> "Rook"]

\* C25: for every id n of 0..959, lookup(n) is the arrangement of the
\* canonical numbering; in particular id 518 yields the standard one.
C25_LookupIsCanonical ==
    /\ lookup(id_of(move_state.position.backrank)).pieces
          = Canonical(id_of(move_state.position.backrank))
    /\ lookup(518).pieces = StandardPieces

\* ---- C26 ----
\* C26: BackRankId 0, the default id of a board constructed without an id,
\* looks up the standard arrangement (king on file e, queen on d, rooks on
\* a and h, knights on b and g, bishops on c and f); try_from accepts the
\* indexes 0..959, each of which the registry can look up, and rejects 960
\* and above; every board is built on the back rank of an accepted id.
C26_DefaultIdIsStandard ==
    LET standard == lookup(STANDARD)
    IN /\ STANDARD = 0
       /\ standard.king = FileE /\ standard.queen = FileD
       /\ standard.rooks = <<FileA, FileH>> /\ standard.knights = <<FileB, FileG>>
       /\ standard.bishops = <<FileC, FileF>>
       /\ \A index \in 0..MaxIndex :
              /\ ValidBackRankId(index) <=> index \in 0..959
              /\ ValidBackRankId(index) <=> index + 1 \in DOMAIN BACKRANKS
       /\ ValidBackRankId(id_of(move_state.position.backrank))
       /\ id_of(move_state.position.backrank) = STANDARD
             => move_state.position.backrank.pieces = StandardPieces

\* a board built on the standard back rank, one move played
C26_Witness ==
    /\ board = "Engine"
    /\ move_state.position.backrank = lookup(STANDARD)
    /\ id_of(move_state.position.backrank) = 0
    /\ move_state.position.next_move_id = 1

\* ---- C27 ----
\* the geometric table of the piece on a square: for a pawn the single
\* advance, the double advance and the attacks of the pawn's own colour
GeometricTable(material, from) ==
    CASE material.piece = "King" -> KING_MOVES[from]
      [] material.piece = "Queen" -> QUEEN_MOVES[from]
      [] material.piece = "Rook" -> ROOK_MOVES[from]
      [] material.piece = "Bishop" -> BISHOP_MOVES[from]
      [] material.piece = "Knight" -> KNIGHT_MOVES[from]
      [] material.piece = "Pawn" ->
            IF material.color = "White"
            THEN WHITE_SINGLE_ADVANCES[from] \cup WHITE_DOUBLE_ADVANCES[from] \cup WHITE_PAWN_ATTACKS[from]
            ELSE BLACK_SINGLE_ADVANCES[from] \cup BLACK_DOUBLE_ADVANCES[from] \cup BLACK_PAWN_ATTACKS[from]

\* C27: pre_moves(from) is non-empty only when `from` holds a piece of the
\* colour that is not to move, and its destinations are then the full
\* geometric table of the piece, whatever the occupancy, pins and checks
\* (for a king, with the castle targets of the rights it has); a pawn's
\* table is that of its own colour, so that a Black pawn pre-moves toward
\* rank 1 and a White pawn toward rank 8.
C27_PreMovesAreGeometric ==
    LET pos == move_state.position
    IN \A from \in Squares :
           IF IsSome(pos.squares[from]) /\ Unwrap(pos.squares[from]).color = Opp(turn(pos))
           THEN destinations(pre_moves_from(pos, from))
                    = GeometricTable(Unwrap(pos.squares[from]), from)
                      \cup (IF Unwrap(pos.squares[from]).piece = "King"
                            THEN short_castle_targets(pos) \cup long_castle_targets(pos) ELSE {})
           ELSE destinations(pre_moves_from(pos, from)) = {}

\* ---- C29 ----
\* the pieces of the other side that attack the king of the side to move
RuleCheckers(pos) ==
    {from \in SquaresOfColor(pos, Opp(turn(pos))) :
        \E king \in SquaresOf(pos, turn(pos), "King") : RuleAttacks(pos, from, king)}

\* C29: in every position in which two or more pieces attack the king of
\* the side to move, legal_moves(from) is empty for every square that does
\* not hold that king; only the king has generated moves.
C29_DoubleCheckOnlyKingMoves ==
    LET pos == move_state.position
    IN Cardinality(RuleCheckers(pos)) >= 2
          => \A from \in Squares \ SquaresOf(pos, turn(pos), "King") :
                 destinations(legal_moves(move_state, from)) = {}

\* the double check of rook and knight has been judged: the king has moves,
\* the knight on g1 stands a knight's move from the checking knight, and
\* the game goes on
C29_Witness ==
    LET pos == move_state.position
    IN /\ Cardinality(RuleCheckers(pos)) = 2
       /\ \E king \in SquaresOf(pos, turn(pos), "King") :
              destinations(legal_moves(move_state, king)) # {}
       /\ pos.squares[Sq.G1] = Some(Material("White", "Knight"))
       /\ Sq.F3 \in KNIGHT_MOVES[Sq.G1] \cap RuleCheckers(pos)
       /\ outcome = "Ok"
       /\ board_result = None

\* ---- C28 ----
\* the destinations of a square at the standard start, White to move: the
\* single and the double advance for a pawn, the two jumps for a knight
StartDestinations(from) ==
    CASE RankOf(from) = Rank2 -> {SquareNew(FileOf(from), Rank3), SquareNew(FileOf(from), Rank4)}
      [] from = SquareNew(FileB, Rank1) -> {SquareNew(FileA, Rank3), SquareNew(FileC, Rank3)}
      [] from = SquareNew(FileG, Rank1) -> {SquareNew(FileF, Rank3), SquareNew(FileH, Rank3)}
      [] OTHER -> {}

\* C28: at the standard start with White to move the destinations of
\* legal_moves are, for each White pawn, its single and double advance
\* (e2: e3 and e4), for each knight its two jumps (b1: a3 and c3, g1: f3 and
\* h3), and nothing for the White king, queen, rooks and bishops, for the
\* Black pieces and for the empty squares.
C28_StartDestinations ==
    (/\ move_state.position.squares = PositionNew(lookup(STANDARD)).squares
     /\ turn(move_state.position) = "White")
        => /\ \A from \in Squares :
                  destinations(legal_moves(move_state, from)) = StartDestinations(from)
           /\ destinations(legal_moves(move_state, Sq.E2)) = {Sq.E4, SquareNew(FileE, Rank3)}
           /\ destinations(legal_moves(move_state, Sq.G1)) = {Sq.F3, SquareNew(FileH, Rank3)}

\* the standard start with White to move, met again after the knights of
\* both sides went out and came back
C28_Witness ==
    /\ move_state.position.squares = PositionNew(lookup(STANDARD)).squares
    /\ turn(move_state.position) = "White"
    /\ move_state.position.next_move_id = 4
    /\ destinations(legal_moves(move_state, Sq.E2)) # {}

\* the piece on `square` belongs to the side to move and a slider of the
\* other side that moves along the line it shares with the king of the side
\* to move (rook or queen on a rank or file, bishop or queen on a diagonal)
\* has that piece as the only piece between itself and the king
RulePinned(pos, square) ==
    /\ IsSome(pos.squares[square])
    /\ Unwrap(pos.squares[square]).color = turn(pos)
    /\ \E king \in SquaresOf(pos, turn(pos), "King"), from \in SquaresOfColor(pos, Opp(turn(pos))) :
          /\ \/ /\ Unwrap(pos.squares[from]).piece \in {"Rook", "Queen"}
                /\ king \in ROOK_MOVES[from]
             \/ /\ Unwrap(pos.squares[from]).piece \in {"Bishop", "Queen"}
                /\ king \in BISHOP_MOVES[from]
          /\ between(from, king) \cap {s \in Squares : IsSome(pos.squares[s])} = {square}

\* C31: the cache marks a square as pinned exactly when a slider of the
\* other side that moves along the line king-piece-slider has the piece of
\* the side to move on that square as the only piece between it and the king
C31_PinnedIffRulePinned ==
    \A square \in Squares :
        IsSome(move_state.pinned[square]) <=> RulePinned(move_state.position, square)

\* the squares a slider on `from` reaches along the lines it moves on: every
\* square with no piece between it and `from`, the first occupied square of
\* each line included
RuleSliderMask(pos, from) ==
    LET piece == Unwrap(pos.squares[from]).piece
        table == IF piece = "Rook" THEN ROOK_MOVES[from]
                 ELSE IF piece = "Bishop" THEN BISHOP_MOVES[from]
                 ELSE QUEEN_MOVES[from]
    IN {to \in table : between(from, to) \cap {s \in Squares : IsSome(pos.squares[s])} = {}}

\* C32: for each slider of the side not to move, the squares it is cached
\* as an attacker of are the squares of its lines up to and including the
\* first occupied one, whichever colour stands there, and the checks are
\* the attackers of the square of the king of the side to move
C32_SliderAttacksReachFirstBlocker ==
    /\ \A from \in their_line_pieces(move_state.position) :
          {to \in Squares : from \in move_state.attackers[to]}
              = RuleSliderMask(move_state.position, from)
    /\ \A king \in SquaresOf(move_state.position, turn(move_state.position), "King") :
          move_state.checks = move_state.attackers[king]

\* C33: after every apply_move and apply_pre_move on a MoveState, its
\* checks, attackers and pinned data are those of a MoveState constructed
\* from the position it holds
C33_CacheIsFresh ==
    (board = "MoveState" /\ outcome = "Ok" /\ HasOurKing(move_state.position))
        => move_state = MoveStateNew(move_state.position)

\* the halfmove clock the claim gives after a move of the side to move: 0
\* after a pawn move or a capture, the previous value plus 1 otherwise
ClockAfter(pos, mv) ==
    IF \/ mv.tag \in {"DoubleAdvance", "EnPassant", "Promoting"}
       \/ /\ mv.tag = "Standard"
          /\ \/ Unwrap(pos.squares[mv.from]).piece = "Pawn"
             \/ IsSome(pos.squares[mv.to])
    THEN 0
    ELSE pos.moves_since_progress + 1

\* C34: Position::apply_move leaves the halfmove clock at 0 after a pawn
\* move or a capture (Standard by a pawn or onto an occupied square,
\* DoubleAdvance, EnPassant, Promoting) and at the previous value plus 1
\* after any other move (Standard piece move to an empty square,
\* ShortCastle, LongCastle), for every move the generator records and every
\* promotion validate_move returns
C34_ClockResetIffProgress ==
    board = "Position" =>
        \A from \in ours(move_state.position) :
            \A to \in destinations(legal_moves(move_state, from)) :
                LET after(mv) == PositionApplyMove(move_state.position, mv).moves_since_progress
                                   = ClockAfter(move_state.position, mv)
                    validated(p) == validate_move(move_state, Move(from, to, Some(p)))
                IN /\ after(legal_moves(move_state, from)[to])
                   /\ \A p \in Promotions :
                         validated(p).kind = "Ok" => after(Unwrap(validated(p).mv))

\* kings and rooks with every castling right at clock 99: the generator
\* records both castles (clock 100 after them), a quiet rook move and the
\* capture of the rook on a8 (clock 0 after it)
C34_Witness ==
    /\ board = "Position"
    /\ outcome = "Ok"
    /\ move_state.position.moves_since_progress = 99
    /\ \E to \in DOMAIN all_castle_moves(move_state) : all_castle_moves(move_state)[to].tag = "ShortCastle"
    /\ \E to \in DOMAIN all_castle_moves(move_state) : all_castle_moves(move_state)[to].tag = "LongCastle"
    /\ PositionApplyMove(move_state.position, ShortCastle).moves_since_progress = 100
    /\ contains(legal_moves(move_state, Sq.A1), Sq.A8)
    /\ PositionApplyMove(move_state.position, Standard(Sq.A1, Sq.A8)).moves_since_progress = 0

\* the position after the moves of a history, applied in order to pos
RECURSIVE Replayed(_, _)
Replayed(pos, moves) ==
    IF moves = <<>> THEN pos ELSE Replayed(PositionApplyMove(pos, Head(moves)), Tail(moves))

\* C35: in player mode the review holds one entry more than the move
\* history, its entry k is the position after the first k moves of the
\* history (next move id k, White to move iff k is even), the last entry is
\* the live state, and queued pre-moves add nothing to either
C35_ReviewFollowsHistory ==
    board = "Player" =>
        /\ Len(review.history) = Len(history) + 1
        /\ review.history[Len(review.history)] = move_state
        /\ \A k \in 0..Len(history) :
              LET pos == review.history[k + 1].position
              IN /\ pos = Replayed(PositionNew(move_state.position.backrank), SubSeq(history, 1, k))
                 /\ pos.next_move_id = k
                 /\ turn(pos) = "White" <=> k % 2 = 0

\* two live moves are applied and a pre-move is queued: three review entries
C35_Witness ==
    /\ board = "Player"
    /\ outcome = "Ok"
    /\ Len(history) = 2
    /\ pre_moves # <<>>
    /\ Len(review.history) = 3
    /\ review.history[3].position.next_move_id = 2

\* C36: a step that pushes positions to the review leaves the cursor on the
\* last entry if and only if it was on the last entry before, and otherwise
\* leaves the cursor and the position under it as they were; skip_to_end
\* (set_offset to len - 1) gives at_end, skip_to_start (set_offset to the
\* start id) gives at_start
C36_PushKeepsReviewCursor ==
    [][board = "Player" =>
          /\ Len(review'.history) > Len(review.history) =>
                /\ at_end(review') <=> at_end(review)
                /\ ~at_end(review) =>
                      /\ review'.offset = review.offset
                      /\ review'.history[review'.offset + 1] = review.history[review.offset + 1]
          /\ SetOffset(Len(review.history) - 1) => at_end(review')
          /\ SetOffset(0) => review'.offset = 0]_vars

\* three moves are applied and the cursor is on the position after the first
C36_Witness ==
    /\ board = "Player"
    /\ outcome = "Ok"
    /\ Len(history) = 3
    /\ Len(review.history) = 4
    /\ review.offset = 1
    /\ ~at_end(review)

\* C37: on the player board the preview exists exactly when pre-moves are
\* queued, and on our turn the queue is empty and there is no preview, so
\* the assertions of submit_legal_move hold whenever a live move is applied
C37_PreviewIffQueue ==
    board = "Player" =>
        /\ preview # None <=> pre_moves # <<>>
        /\ our_turn(PlayerState) => (pre_moves = <<>> /\ preview = None)

\* three moves are applied and pre-moves wait in the queue, shown in the
\* preview, while the opponent is to move
C37_Witness ==
    /\ board = "Player"
    /\ outcome = "Ok"
    /\ Len(history) = 3
    /\ ~our_turn(PlayerState)
    /\ pre_moves # <<>>
    /\ preview # None

\* C38: a submit call that returns an error changes nothing: a failed
\* submit_move leaves position, history, repetitions and result, a failed
\* submit_our_move and a failed submit_their_move leave the live state, the
\* history, the review, the preview and the queue; that is, a step that
\* ends with an error and changes any of them is no submit call
C38_FailedSubmitChangesNothing ==
    [][(/\ outcome' = "InvalidMove"
        /\ <<move_state, history, repetitions, board_result, review, preview, pre_moves>>'
              # <<move_state, history, repetitions, board_result, review, preview, pre_moves>>)
          => \A mv \in Inputs : ~SubmitMove(mv) /\ ~SubmitOurMove(mv) /\ ~SubmitTheirMove(mv)]_vars

\* a call has failed on the opponent's turn after a live move, and the
\* queued pre-moves and their preview are still there
C38_Witness ==
    /\ board = "Player"
    /\ outcome = "InvalidMove"
    /\ Len(history) >= 1
    /\ ~our_turn(PlayerState)
    /\ pre_moves # <<>>
    /\ preview # None

\* C39: for every id, colour and list of Moves, PlayerBoard::replay ends
\* as EngineBoard::replay does on the same input: after every round of its
\* loop the player board has succeeded or failed as the engine board does
\* on the Moves submitted so far, after the same number of applied moves,
\* and holds the same live position and the same move history
C39_ReplayAgrees ==
    board = "Replay" =>
        LET agree(e) ==
                /\ e.outcome = outcome
                /\ Len(e.history) = Len(history)
                /\ e.history = history
                /\ e.move_state.position = move_state.position
                /\ pre_moves = <<>> /\ preview = None
        IN agree(EngineReplay(script.id, SubSeq(script.moves, 1, script.next)))

\* a replay of three Moves has succeeded on the player board
C39_Witness ==
    /\ board = "Replay"
    /\ script.next = 3
    /\ outcome = "Ok"
    /\ Len(history) = 3
    /\ move_state.position.next_move_id = 3

\* the squares the generator keys a castle of a colour with: the
\* destination of the king and the source of the rook
CastleKeys(pos, color, castle) ==
    IF castle = "ShortCastle" THEN {oo_king_dest(pos, color), oo_rook_src(pos, color)}
    ELSE {ooo_king_dest(pos, color), ooo_rook_src(pos, color)}

\* C40: for the side not to move, the king's pre-move destinations tagged
\* as a castle whose right is set are the destination of the king and the
\* source of the rook of that castle, the squares the generator tags, and
\* every other square next to the king is a Standard king step
C40_PreMoveCastleTargets ==
    board = "Player" =>
        LET pos == move_state.position
            them == Opp(turn(move_state.position))
            tagged(pm, castle) == {to \in DOMAIN pm : pm[to].tag = castle}
            right(castle) == IF castle = "ShortCastle" THEN pos.castling[them].oo
                             ELSE pos.castling[them].ooo
            agrees(pm) ==
                /\ \A castle \in {"ShortCastle", "LongCastle"} :
                      right(castle) => tagged(pm, castle) = CastleKeys(pos, them, castle)
                /\ \A to \in KING_MOVES[king_src(pos, them)] :
                      (\A castle \in {"ShortCastle", "LongCastle"} :
                          ~(right(castle) /\ to \in CastleKeys(pos, them, castle)))
                          => (to \in DOMAIN pm /\ pm[to].tag = "Standard")
        IN pos.squares[king_src(pos, them)] = Some(Material(them, "King"))
              => agrees(pre_moves_from(pos, king_src(pos, them)))

====
